---- MODULE Spec2Model ----
(***************************************************************************)
(* A model of the workroom lifecycle orchestrator (internal/workroom),     *)
(* the VCS abstraction it drives (internal/vcs) and the config store it    *)
(* mutates (internal/config).                                              *)
(*                                                                         *)
(* Strings of the program are sequences of one-character strings, so that  *)
(* concatenation, formatting and pattern matching are computed; a path is  *)
(* a sequence of segments.                                                 *)
(***************************************************************************)
EXTENDS Integers, Sequences, FiniteSets, TLC

VARIABLES
    cfg,          \* the config document (config.json)
    disk,         \* the workroom directories: those made since the start and
                  \* those found at the start that are gone since
    jjSpaces,     \* per repository: the names of its JJ workspaces
    gitTrees,     \* per repository: the paths of its linked Git worktrees
    gitBranches,  \* per repository: its Git branches created for workrooms
    pc,           \* position of the running invocation ("idle" between them)
    op,           \* the running invocation: command, dir, name, flags
    vcs,          \* Service.VCS: "" (nil), "jj" or "git"
    attempts,     \* generateUniqueName: calls of the generator so far
    lastName,     \* generateUniqueName: lastName
    round,        \* generateUniqueName: parity of the fallback loop's round
    name,         \* the workroom name the invocation works on
    selected,     \* InteractiveDelete: the names still to delete, in order
    confirmed,    \* what ConfirmFn answered: "" (not asked), "yes", "no", "error"
    err,          \* the error the invocation returned ("" is nil)
    log,          \* the calls of collaborators the invocation made, in order
    pre,          \* the world when the invocation started
    invocations   \* how many invocations were started

world == <<cfg, disk, jjSpaces, gitTrees, gitBranches>>
locals == <<vcs, attempts, lastName, round, name, selected, confirmed>>
vars == <<cfg, disk, jjSpaces, gitTrees, gitBranches, pc, op, vcs,
          attempts, lastName, round, name, selected, confirmed, err, log,
          pre, invocations>>

----------------------------------------------------------------------------
(* Bounds *)

\* Invocations of the tool in one run.
MaxInvocations == 3

\* Length of the names handed to the name validation.
MaxNameLen == 3

----------------------------------------------------------------------------
(* Strings and paths *)

Lower == {"a","b","c","d","e","f","g","h","i","j","k","l","m",
          "n","o","p","q","r","s","t","u","v","w","x","y","z"}
Upper == {"A","B","C","D","E","F","G","H","I","J","K","L","M",
          "N","O","P","Q","R","S","T","U","V","W","X","Y","Z"}
DigitChars == <<"0","1","2","3","4","5","6","7","8","9">>
Digit == {DigitChars[i] : i \in 1..10}

\* fmt.Sprintf("%d", n) for n >= 0.
RECURSIVE Decimal(_)
Decimal(n) ==
    IF n < 10 THEN <<DigitChars[n + 1]>>
    ELSE Decimal(n \div 10) \o <<DigitChars[(n % 10) + 1]>>

\* filepath.Join(dir, elem) for a clean dir and a single segment.
Join(dir, elem) == Append(dir, elem)

\* filepath.Base(path).
Base(path) == path[Len(path)]

----------------------------------------------------------------------------
(* Finite maps (Go's map[string]any) *)

EmptyMap == [k \in {} |-> k]
Put(m, k, v) == [x \in (DOMAIN m) \cup {k} |-> IF x = k THEN v ELSE m[x]]
Drop(m, k) == [x \in (DOMAIN m) \ {k} |-> m[x]]

----------------------------------------------------------------------------
(* The directories the tool is invoked in, and what lies in them *)

ProjJJ == << <<"p","j">> >>
ProjGit == << <<"p","g">> >>
ProjNone == << <<"p","n">> >>
ProjMarked == << <<"p","m">> >>
Dirs == {ProjJJ, ProjGit, ProjNone, ProjMarked}
Repos == {ProjJJ, ProjGit}

\* The entries of interest at the root of each directory: the sentinel file
\* .Workroom and the VCS marker directories .jj and .git.
DirEntries(dir) ==
    CASE dir = ProjJJ -> {".jj"}
      [] dir = ProjGit -> {".git"}
      [] dir = ProjMarked -> {".Workroom", ".jj", ".git"}
      [] OTHER -> {}

HomeDir == << <<"h","o","m","e">> >>
Tilde == <<"~">>

----------------------------------------------------------------------------
(* internal/config *)

DefaultWorkroomsDir == <<Tilde, <<"w","o","r","k","r","o","o","m","s">> >>

\* Read of a missing file: the empty document.
EmptyConfig == [workrooms_dir |-> <<>>, projects |-> EmptyMap]

expandPath(path) ==
    IF Len(path) >= 1 /\ path[1] = Tilde THEN HomeDir \o Tail(path) ELSE path

WorkroomsDir(data) ==
    IF data.workrooms_dir # <<>> THEN expandPath(data.workrooms_dir)
    ELSE expandPath(DefaultWorkroomsDir)

\* AddWorkroom starting the workrooms of the project afresh.
AddWorkroomReplacing(data, parentPath, n, workroomPath, vcsType) ==
    [data EXCEPT !.projects = Put(@, parentPath,
        [vcs |-> vcsType,
         workrooms |-> Put(EmptyMap, n, [path |-> workroomPath])])]

\* AddWorkroom setting vcs only when it creates the project.
AddWorkroomKeepingVcs(data, parentPath, n, workroomPath, vcsType) ==
    LET old == IF parentPath \in DOMAIN data.projects
               THEN data.projects[parentPath]
               ELSE [vcs |-> vcsType, workrooms |-> EmptyMap]
        project == [vcs |-> old.vcs,
                    workrooms |-> Put(old.workrooms, n, [path |-> workroomPath])]
    IN  [data EXCEPT !.projects = Put(@, parentPath, project)]

\* AddWorkroom updating only a project the document already holds.
AddWorkroomToKnownProject(data, parentPath, n, workroomPath, vcsType) ==
    IF parentPath \notin DOMAIN data.projects THEN data
    ELSE [data EXCEPT !.projects[parentPath] =
              [vcs |-> vcsType,
               workrooms |-> Put(@.workrooms, n, [path |-> workroomPath])]]

\* The document AddWorkroom hands to Write.
AddWorkroom(data, parentPath, n, workroomPath, vcsType) ==
    LET old == IF parentPath \in DOMAIN data.projects
               THEN data.projects[parentPath]
               ELSE [vcs |-> vcsType, workrooms |-> EmptyMap]
        project == [vcs |-> vcsType,
                    workrooms |-> Put(old.workrooms, n, [path |-> workroomPath])]
    IN  [data EXCEPT !.projects = Put(@, parentPath, project)]

\* RemoveWorkroom counting the workrooms before it deletes the entry.
RemoveWorkroomCountingBefore(data, parentPath, n) ==
    IF parentPath \notin DOMAIN data.projects THEN data
    ELSE IF Cardinality(DOMAIN data.projects[parentPath].workrooms) = 0
    THEN [data EXCEPT !.projects = Drop(@, parentPath)]
    ELSE [data EXCEPT !.projects[parentPath].workrooms = Drop(@, n)]

\* RemoveWorkroom dropping the project when it does not hold the workroom.
RemoveWorkroomDroppingProject(data, parentPath, n) ==
    IF parentPath \notin DOMAIN data.projects THEN data
    ELSE LET workrooms == Drop(data.projects[parentPath].workrooms, n)
         IN  IF n \notin DOMAIN data.projects[parentPath].workrooms
                \/ Cardinality(DOMAIN workrooms) = 0
             THEN [data EXCEPT !.projects = Drop(@, parentPath)]
             ELSE [data EXCEPT !.projects[parentPath].workrooms = workrooms]

\* RemoveWorkroom keeping a project whose last workroom is removed.
RemoveWorkroomKeepingProject(data, parentPath, n) ==
    IF parentPath \notin DOMAIN data.projects THEN data
    ELSE [data EXCEPT !.projects[parentPath].workrooms = Drop(@, n)]

\* RemoveWorkroom returns nil without writing when the project is absent.
RemoveWorkroomWrites(data, parentPath) == parentPath \in DOMAIN data.projects

\* The document RemoveWorkroom hands to Write.
RemoveWorkroom(data, parentPath, n) ==
    IF ~RemoveWorkroomWrites(data, parentPath) THEN data
    ELSE LET workrooms == Drop(data.projects[parentPath].workrooms, n)
         IN  IF Cardinality(DOMAIN workrooms) = 0
             THEN [data EXCEPT !.projects = Drop(@, parentPath)]
             ELSE [data EXCEPT !.projects[parentPath].workrooms = workrooms]

\* FindCurrentProject scanning the workroom paths before the project keys.
FindCurrentProjectScanningFirst(data, cwd) ==
    LET owners == {p \in DOMAIN data.projects :
                      \E n \in DOMAIN data.projects[p].workrooms :
                          data.projects[p].workrooms[n].path = cwd}
    IN  IF owners # {} THEN {<<p, TRUE>> : p \in owners}
        ELSE IF cwd \in DOMAIN data.projects THEN {<<cwd, TRUE>>}
        ELSE {<<cwd, FALSE>>}

\* The results FindCurrentProject can return (the scan follows Go's map order):
\* <<projectPath, found>>.
FindCurrentProject(data, cwd) ==
    IF cwd \in DOMAIN data.projects THEN {<<cwd, TRUE>>}
    ELSE LET owners == {p \in DOMAIN data.projects :
                          \E n \in DOMAIN data.projects[p].workrooms :
                              data.projects[p].workrooms[n].path = cwd}
         IN  IF owners # {} THEN {<<p, TRUE>> : p \in owners}
             ELSE {<<cwd, FALSE>>}

----------------------------------------------------------------------------
(* Name generator *)

\* The words of the two fixed lists the model draws from.
Adjectives == { <<"a","p","t">> }
Nouns == { <<"b","a","y">>, <<"b","o","w">> }

\* Every name Generate() can return here: "<adjective>-<noun>".
Generate == {a \o <<"-">> \o n : a \in Adjectives, n \in Nouns}

----------------------------------------------------------------------------
(* The file system under the workrooms roots *)

\* A suffix joined with a dot: fmt.Sprintf("%s.%d", lastName, n).
SuffixedWithDot(base, n) == base \o <<".">> \o Decimal(n)

\* fmt.Sprintf("%s-%d", lastName, n).
Suffixed(base, n) == base \o <<"-">> \o Decimal(n)

\* rand.IntN(90)+10
SuffixSpan == 90
SuffixMin == 10

\* The workrooms roots: the default one, and the one workrooms_dir can name.
OtherRoot == << <<"w","r">> >>
Roots == {expandPath(DefaultWorkroomsDir), expandPath(OtherRoot)}

\* The directories found in the workrooms roots before the first
\* invocation: left there by others, they occupy every suffixed variant of one
\* generated name, and all but FreeSuffixes of those of every other name.
FreeSuffixes == {10, 11}
FullName == <<"a","p","t","-","b","a","y">>
Occupied ==
    {Join(root, Suffixed(base, n)) :
        root \in Roots, base \in Generate,
        n \in SuffixMin..(SuffixMin + SuffixSpan - 1)}
    \ {Join(root, Suffixed(base, n)) :
        root \in Roots, base \in Generate \ {FullName}, n \in FreeSuffixes}

NoDirs == [made |-> {}, gone |-> {}]

\* os.Stat(path) finds a directory.
DirExists(d, path) == path \in d.made \/ (path \in Occupied /\ path \notin d.gone)

\* The directory tree after the directory path was created.
MkdirAll(d, path) ==
    IF path \in Occupied THEN [d EXCEPT !.gone = @ \ {path}]
    ELSE [d EXCEPT !.made = @ \cup {path}]

\* The directory tree after os.RemoveAll(path).
RemoveAll(d, path) ==
    IF path \in Occupied THEN [d EXCEPT !.gone = @ \cup {path}]
    ELSE [d EXCEPT !.made = @ \ {path}]

----------------------------------------------------------------------------
(* internal/vcs *)

TypeJJ == "jj"
TypeGit == "git"
ErrUnsupportedVCS == "ErrUnsupportedVCS"

\* What os.Stat finds at an entry: nothing, a file or a directory.
EntryKinds == {"none", "file", "dir"}
Kind(dir, entry) ==
    IF entry \notin DirEntries(dir) THEN "none"
    ELSE IF entry = ".Workroom" THEN "file"
    ELSE "dir"

\* A detection that looks for .git first.
DetectMarkersGitFirst(jj, git) ==
    IF git # "none" THEN [vcs |-> TypeGit, err |-> ""]
    ELSE IF jj = "dir" THEN [vcs |-> TypeJJ, err |-> ""]
    ELSE [vcs |-> "", err |-> ErrUnsupportedVCS]

\* Detect, given what is at .jj and at .git: the backend type, or the error.
\* .jj counts as a directory only; .git counts as a directory or a file.
DetectMarkers(jj, git) ==
    IF jj = "dir" THEN [vcs |-> TypeJJ, err |-> ""]
    ELSE IF git # "none" THEN [vcs |-> TypeGit, err |-> ""]
    ELSE [vcs |-> "", err |-> ErrUnsupportedVCS]

\* Detect: the backend type, or the error.
Detect(dir) == DetectMarkers(Kind(dir, ".jj"), Kind(dir, ".git"))

WorkroomPrefix == <<"w","o","r","k","r","o","o","m","/">>
DefaultWorkspace == <<"d","e","f","a","u","l","t">>

\* The names `jj workspace list` prints, one "name: description" line each.
JJWorkspaceList(w, dir) == {DefaultWorkspace} \cup w.jjSpaces[dir]

parseJJWorkspaces(output) == {n \in output : n # <<>> /\ n # DefaultWorkspace}

JJListWorkrooms(w, dir) == parseJJWorkspaces(JJWorkspaceList(w, dir))

JJWorkroomExists(w, dir, n) == (WorkroomPrefix \o n) \in JJListWorkrooms(w, dir)

\* The worktree paths `git worktree list --porcelain` prints: the main one
\* and the linked ones.
GitWorktreeList(w, dir) == {dir} \cup w.gitTrees[dir]

parseGitWorktrees(output, cwd) == {p \in output : p # cwd}

listWorktreePaths(w, dir) == parseGitWorktrees(GitWorktreeList(w, dir), dir)

GitWorkroomExists(w, dir, n) == \E p \in listWorktreePaths(w, dir) : Base(p) = n

\* VCS.WorkroomExists of the backend v, in the world w.
WorkroomExists(w, v, dir, n) ==
    IF v = TypeJJ THEN JJWorkroomExists(w, dir, n)
    ELSE GitWorkroomExists(w, dir, n)

\* `jj workspace add path --name vcsName` refuses a name or a destination
\* that exists; `git worktree add -b vcsName path` refuses an existing
\* branch, worktree or destination.
VCSCreateRefused(w, v, dir, vcsName, path) ==
    IF v = TypeJJ
    THEN vcsName \in w.jjSpaces[dir] \/ DirExists(w.disk, path)
    ELSE vcsName \in w.gitBranches[dir] \/ path \in w.gitTrees[dir]
         \/ DirExists(w.disk, path)

\* The world after a successful VCS.Create: both backends create the
\* directory; Git also creates the branch vcsName.
VCSCreate(w, v, dir, vcsName, path) ==
    IF v = TypeJJ
    THEN [w EXCEPT !.jjSpaces[dir] = @ \cup {vcsName},
                   !.disk = MkdirAll(@, path)]
    ELSE [w EXCEPT !.gitTrees[dir] = @ \cup {path},
                   !.gitBranches[dir] = @ \cup {vcsName},
                   !.disk = MkdirAll(@, path)]

\* `jj workspace forget vcsName` needs the workspace; `git worktree remove
\* path --force` needs the worktree.
VCSDeleteRefused(w, v, dir, vcsName, path) ==
    IF v = TypeJJ THEN vcsName \notin w.jjSpaces[dir]
    ELSE path \notin w.gitTrees[dir]

\* A VCS.Delete that deletes the branch of the worktree with it.
VCSDeleteWithBranch(w, v, dir, vcsName, path) ==
    IF v = TypeJJ
    THEN [w EXCEPT !.jjSpaces[dir] = @ \ {vcsName}]
    ELSE [w EXCEPT !.gitTrees[dir] = @ \ {path},
                   !.gitBranches[dir] = @ \ {vcsName},
                   !.disk = RemoveAll(@, path)]

\* The world after a successful VCS.Delete: JJ forgets the workspace and
\* leaves the directory; Git removes the worktree and its directory and
\* keeps the branch.
VCSDelete(w, v, dir, vcsName, path) ==
    IF v = TypeJJ
    THEN [w EXCEPT !.jjSpaces[dir] = @ \ {vcsName}]
    ELSE [w EXCEPT !.gitTrees[dir] = @ \ {path}, !.disk = RemoveAll(@, path)]

----------------------------------------------------------------------------
(* internal/workroom: Service *)

ErrInWorkroom == "ErrInWorkroom"
ErrInvalidName == "ErrInvalidName"
ErrDirExists == "ErrDirExists"
ErrJJWorkspaceExists == "ErrJJWorkspaceExists"
ErrGitWorktreeExists == "ErrGitWorktreeExists"
ErrJJWorkspaceNotFound == "ErrJJWorkspaceNotFound"
ErrGitWorktreeNotFound == "ErrGitWorktreeNotFound"
ErrSetup == "ErrSetup"
ErrTeardown == "ErrTeardown"
\* Errors without a sentinel: a failed file operation, a failed listing
\* subprocess, a failed prompt, the --confirm mismatch, and the wrapped
\* backend failures.
ErrIO == "io error"
ErrSubprocess == "subprocess error"
ErrPrompt == "prompt error"
ErrConfirmMismatch == "--confirm value does not match workroom name"
ErrCreateWorkspace == "failed to create workspace"
ErrDeleteWorkspace == "failed to delete workspace"

\* for range 5
MaxNameAttempts == 5

World == [cfg |-> cfg, disk |-> disk, jjSpaces |-> jjSpaces,
          gitTrees |-> gitTrees, gitBranches |-> gitBranches]

SetWorld(w) ==
    /\ cfg' = w.cfg
    /\ disk' = w.disk
    /\ jjSpaces' = w.jjSpaces
    /\ gitTrees' = w.gitTrees
    /\ gitBranches' = w.gitBranches

NoOp == [cmd |-> "", dir |-> <<>>, name |-> <<>>, confirm |-> <<>>,
         pretend |-> FALSE]
NoWorld == [cfg |-> EmptyConfig, disk |-> NoDirs, jjSpaces |-> EmptyMap,
            gitTrees |-> EmptyMap, gitBranches |-> EmptyMap]

\* An entry of log: a call of a collaborator, and for a script the exit
\* status it ended with (0 for every other call).
Ran(what, ref, path, exit) ==
    [call |-> what, ref |-> ref, path |-> path, exit |-> exit]
Call(what, ref, path) == Ran(what, ref, path, 0)

\* validNameRe: ^[a-zA-Z0-9]([a-zA-Z0-9_-]*[a-zA-Z0-9])?$
AlNum == Lower \cup Upper \cup Digit

\* A pattern without the optional group: ^[a-zA-Z0-9][a-zA-Z0-9_-]*[a-zA-Z0-9]$
validNameReTwoOrMore(n) ==
    /\ Len(n) >= 2
    /\ n[1] \in AlNum
    /\ n[Len(n)] \in AlNum
    /\ \A i \in 1..Len(n) : n[i] \in AlNum \cup {"_", "-"}

validNameRe(n) ==
    /\ Len(n) >= 1
    /\ n[1] \in AlNum
    /\ n[Len(n)] \in AlNum
    /\ \A i \in 1..Len(n) : n[i] \in AlNum \cup {"_", "-"}

CheckNotInWorkroom(dir) ==
    IF ".Workroom" \in DirEntries(dir) THEN ErrInWorkroom ELSE ""

vcsName(n) == WorkroomPrefix \o n

workroomPath(data, n) == Join(WorkroomsDir(data), n)

\* A script runner that starts the script whether or not the working
\* directory exists.
ScriptExitsAnywhere(w, workroomDir) == {0, 1}

\* script.Run started in workroomDir: the possible exit statuses. A missing
\* working directory makes the start fail, which Run reports like a
\* non-zero exit.
ScriptExits(w, workroomDir) ==
    IF DirExists(w.disk, workroomDir) THEN {0, 1} ELSE {1}

\* A candidate check that asks the backend only.
UnusedInBackend(w, v, dir, n) == ~WorkroomExists(w, v, dir, n)

\* The candidate is unused: the backend does not report it and nothing is
\* at its target path.
Unused(w, v, dir, n) ==
    /\ ~WorkroomExists(w, v, dir, n)
    /\ ~DirExists(w.disk, workroomPath(w.cfg, n))

\* The invocation returns.
Finish(e) ==
    /\ pc' = "done"
    /\ err' = e

\* A new invocation of the tool starts: a fresh Service.
Start(cmd, dir, n, confirm, pretend) ==
    /\ pc = "idle"
    /\ invocations < MaxInvocations
    /\ invocations' = invocations + 1
    /\ op' = [cmd |-> cmd, dir |-> dir, name |-> n, confirm |-> confirm,
              pretend |-> pretend]
    /\ pre' = World

----------------------------------------------------------------------------
(* Service.Create *)

\* Create, lines 112-117: the guards; the error returned, "" for none.
createGuards(dir) ==
    IF CheckNotInWorkroom(dir) # "" THEN CheckNotInWorkroom(dir)
    ELSE Detect(dir).err

\* Create, lines 126-141: the re-verification of the chosen name, given that
\* the listing succeeds; the error returned, "" for none.
createConflict(w, v, dir, n, pretend) ==
    IF pretend THEN ""
    ELSE IF WorkroomExists(w, v, dir, n)
    THEN (IF v = TypeJJ THEN ErrJJWorkspaceExists ELSE ErrGitWorktreeExists)
    ELSE IF DirExists(w.disk, workroomPath(w.cfg, n)) THEN ErrDirExists
    ELSE ""

\* Create, lines 112-117.
CreateBegin(dir, pretend) ==
    /\ Start("create", dir, <<>>, <<>>, pretend)
    /\ IF createGuards(dir) # ""
       THEN Finish(createGuards(dir)) /\ UNCHANGED vcs
       ELSE pc' = "generate" /\ vcs' = Detect(dir).vcs /\ UNCHANGED err
    /\ UNCHANGED <<world, attempts, lastName, round, name, selected,
                   confirmed, log>>

\* generateUniqueName, lines 188-200: one round of the loop.
GenerateAttempt ==
    /\ pc = "generate"
    /\ \E generated \in Generate :
        /\ attempts' = attempts + 1
        /\ lastName' = generated
        /\ \/ Finish(ErrSubprocess) /\ UNCHANGED name
           \/ IF Unused(World, vcs, op.dir, generated)
              THEN pc' = "create" /\ name' = generated /\ UNCHANGED err
              ELSE /\ pc' = IF attempts + 1 = MaxNameAttempts THEN "fallback"
                            ELSE "generate"
                   /\ UNCHANGED <<name, err>>
    /\ UNCHANGED <<world, op, vcs, round, selected, confirmed, log, pre,
                   invocations>>

\* A fallback whose suffix is rand.IntN(90), without the 10 added.
FallbackAttemptFromZero ==
    /\ pc = "fallback"
    /\ \/ Finish(ErrSubprocess) /\ UNCHANGED <<name, round>>
       \/ \E k \in 0..(SuffixSpan - 1) :
            LET candidate == Suffixed(lastName, k) IN
            IF Unused(World, vcs, op.dir, candidate)
            THEN pc' = "create" /\ name' = candidate /\ UNCHANGED <<err, round>>
            ELSE /\ round' = 1 - round
                 /\ UNCHANGED <<pc, name, err>>
    /\ UNCHANGED <<world, op, vcs, attempts, lastName, selected, confirmed,
                   log, pre, invocations>>

\* generateUniqueName, lines 202-214: one round of the fallback loop.
FallbackAttempt ==
    /\ pc = "fallback"
    /\ \/ Finish(ErrSubprocess) /\ UNCHANGED <<name, round>>
       \/ \E k \in 0..(SuffixSpan - 1) :
            LET candidate == Suffixed(lastName, k + SuffixMin) IN
            IF Unused(World, vcs, op.dir, candidate)
            THEN pc' = "create" /\ name' = candidate /\ UNCHANGED <<err, round>>
            ELSE /\ round' = 1 - round
                 /\ UNCHANGED <<pc, name, err>>
    /\ UNCHANGED <<world, op, vcs, attempts, lastName, selected, confirmed,
                   log, pre, invocations>>

\* A step that goes on to the config entry when the backend Create fails.
CreateWorkspaceIgnoringFailure ==
    /\ pc = "create"
    /\ LET wrPath == workroomPath(cfg, name) IN
       IF op.pretend
       THEN pc' = "addConfig" /\ UNCHANGED <<world, err, log>>
       ELSE \E listed \in BOOLEAN, made \in BOOLEAN, created \in BOOLEAN :
            IF ~listed
            THEN Finish(ErrSubprocess) /\ UNCHANGED <<world, log>>
            ELSE IF createConflict(World, vcs, op.dir, name, op.pretend) # ""
            THEN /\ Finish(createConflict(World, vcs, op.dir, name, op.pretend))
                 /\ UNCHANGED <<world, log>>
            ELSE IF ~made
            THEN Finish(ErrIO) /\ UNCHANGED <<world, log>>
            ELSE /\ log' = Append(log, Call("vcs.Create", vcsName(name), wrPath))
                 /\ pc' = "addConfig"
                 /\ UNCHANGED err
                 /\ IF created /\ ~VCSCreateRefused(World, vcs, op.dir, vcsName(name), wrPath)
                    THEN SetWorld(VCSCreate(World, vcs, op.dir, vcsName(name), wrPath))
                    ELSE UNCHANGED world
    /\ UNCHANGED <<op, locals, pre, invocations>>

\* Create, lines 124-151: the re-verification and the backend Create.
CreateWorkspace ==
    /\ pc = "create"
    /\ LET wrPath == workroomPath(cfg, name) IN
       IF op.pretend
       THEN pc' = "addConfig" /\ UNCHANGED <<world, err, log>>
       ELSE \E listed \in BOOLEAN, made \in BOOLEAN, created \in BOOLEAN :
            IF ~listed
            THEN Finish(ErrSubprocess) /\ UNCHANGED <<world, log>>
            ELSE IF createConflict(World, vcs, op.dir, name, op.pretend) # ""
            THEN /\ Finish(createConflict(World, vcs, op.dir, name, op.pretend))
                 /\ UNCHANGED <<world, log>>
            ELSE IF ~made
            THEN Finish(ErrIO) /\ UNCHANGED <<world, log>>
            ELSE /\ log' = Append(log, Call("vcs.Create", vcsName(name), wrPath))
                 /\ IF created /\ ~VCSCreateRefused(World, vcs, op.dir, vcsName(name), wrPath)
                    THEN /\ SetWorld(VCSCreate(World, vcs, op.dir, vcsName(name), wrPath))
                         /\ pc' = "addConfig"
                         /\ UNCHANGED err
                    ELSE Finish(ErrCreateWorkspace) /\ UNCHANGED world
    /\ UNCHANGED <<op, locals, pre, invocations>>

\* A config step that writes the entry in a dry run too.
CreateConfigInDryRun ==
    /\ pc = "addConfig"
    /\ \E written \in BOOLEAN :
        IF written
        THEN /\ cfg' = AddWorkroom(cfg, op.dir, name, workroomPath(cfg, name), vcs)
             /\ pc' = "setup"
             /\ UNCHANGED err
        ELSE Finish(ErrIO) /\ UNCHANGED cfg
    /\ UNCHANGED <<disk, jjSpaces, gitTrees, gitBranches, op, locals,
                   log, pre, invocations>>

\* Create, lines 153-158: the config entry.
CreateConfig ==
    /\ pc = "addConfig"
    /\ IF op.pretend
       THEN pc' = "setup" /\ UNCHANGED <<cfg, err>>
       ELSE \E written \in BOOLEAN :
            IF written
            THEN /\ cfg' = AddWorkroom(cfg, op.dir, name, workroomPath(cfg, name), vcs)
                 /\ pc' = "setup"
                 /\ UNCHANGED err
            ELSE Finish(ErrIO) /\ UNCHANGED cfg
    /\ UNCHANGED <<disk, jjSpaces, gitTrees, gitBranches, op, locals,
                   log, pre, invocations>>

\* A setup step that reports success whatever the exit status of the script.
CreateSetupIgnoringExit ==
    /\ pc = "setup"
    /\ \E present \in BOOLEAN :
        IF present /\ ~op.pretend
        THEN \E exit \in ScriptExits(World, workroomPath(cfg, name)) :
             /\ log' = log \o <<Ran("setup", name, workroomPath(cfg, name), exit),
                                 Call("say created", name, workroomPath(cfg, name))>>
             /\ Finish("")
        ELSE /\ log' = Append(log, Call("say created", name, workroomPath(cfg, name)))
             /\ Finish("")
    /\ UNCHANGED <<world, op, locals, pre, invocations>>

\* Create, lines 160-182: the setup script, if the project has one, and the
\* success report.
CreateSetup ==
    /\ pc = "setup"
    /\ \E present \in BOOLEAN :
        IF present /\ ~op.pretend
        THEN \E exit \in ScriptExits(World, workroomPath(cfg, name)) :
             /\ log' = log \o <<Ran("setup", name, workroomPath(cfg, name), exit)>>
                           \o (IF exit = 0
                               THEN <<Call("say created", name, workroomPath(cfg, name))>>
                               ELSE <<>>)
             /\ Finish(IF exit = 0 THEN "" ELSE ErrSetup)
        ELSE /\ log' = Append(log, Call("say created", name, workroomPath(cfg, name)))
             /\ Finish("")
    /\ UNCHANGED <<world, op, locals, pre, invocations>>

----------------------------------------------------------------------------
(* Service.deleteByName *)

\* A teardown step that goes on to the backend Delete whatever the exit
\* status of the script.
DeleteTeardownIgnoringExit ==
    /\ pc = "teardown"
    /\ \E present \in BOOLEAN :
        IF present /\ ~op.pretend
        THEN \E exit \in ScriptExits(World, workroomPath(cfg, name)) :
             /\ log' = Append(log, Ran("teardown", name, workroomPath(cfg, name), exit))
             /\ pc' = "forget" /\ UNCHANGED err
        ELSE pc' = "forget" /\ UNCHANGED <<err, log>>
    /\ UNCHANGED <<world, op, locals, pre, invocations>>

\* deleteByName, lines 443-457: the teardown script, if the project has one.
DeleteTeardown ==
    /\ pc = "teardown"
    /\ \E present \in BOOLEAN :
        IF present /\ ~op.pretend
        THEN \E exit \in ScriptExits(World, workroomPath(cfg, name)) :
             /\ log' = Append(log, Ran("teardown", name, workroomPath(cfg, name), exit))
             /\ IF exit = 0 THEN pc' = "forget" /\ UNCHANGED err
                ELSE Finish(ErrTeardown)
        ELSE pc' = "forget" /\ UNCHANGED <<err, log>>
    /\ UNCHANGED <<world, op, locals, pre, invocations>>

\* A backend step that removes the directory of a JJ workroom before it asks
\* the backend to forget the workspace.
DeleteWorkspaceCleaningFirst ==
    /\ pc = "forget"
    /\ LET wrPath == workroomPath(cfg, name)
           cleaned == IF vcs = TypeJJ
                      THEN [World EXCEPT !.disk = RemoveAll(@, wrPath)]
                      ELSE World
       IN
       IF op.pretend
       THEN pc' = "dropConfig" /\ UNCHANGED <<world, err, log>>
       ELSE \E deleted \in BOOLEAN :
            /\ log' = Append(log, Call("vcs.Delete", vcsName(name), wrPath))
            /\ IF deleted /\ ~VCSDeleteRefused(World, vcs, op.dir, vcsName(name), wrPath)
               THEN /\ SetWorld(VCSDelete(cleaned, vcs, op.dir, vcsName(name), wrPath))
                    /\ pc' = "dropConfig"
                    /\ UNCHANGED err
               ELSE Finish(ErrDeleteWorkspace) /\ SetWorld(cleaned)
    /\ UNCHANGED <<op, locals, pre, invocations>>

\* A backend step that goes on to the config entry when the backend Delete
\* fails.
DeleteWorkspaceIgnoringFailure ==
    /\ pc = "forget"
    /\ LET wrPath == workroomPath(cfg, name) IN
       IF op.pretend
       THEN pc' = "dropConfig" /\ UNCHANGED <<world, err, log>>
       ELSE \E deleted \in BOOLEAN :
            /\ log' = Append(log, Call("vcs.Delete", vcsName(name), wrPath))
            /\ pc' = "dropConfig"
            /\ UNCHANGED err
            /\ IF deleted /\ ~VCSDeleteRefused(World, vcs, op.dir, vcsName(name), wrPath)
               THEN LET w == VCSDelete(World, vcs, op.dir, vcsName(name), wrPath) IN
                    SetWorld(IF vcs = TypeJJ /\ DirExists(w.disk, wrPath)
                             THEN [w EXCEPT !.disk = RemoveAll(@, wrPath)]
                             ELSE w)
               ELSE UNCHANGED world
    /\ UNCHANGED <<op, locals, pre, invocations>>

\* deleteByName, lines 459-473: the backend Delete and, for JJ, the removal
\* of the directory it leaves.
DeleteWorkspace ==
    /\ pc = "forget"
    /\ LET wrPath == workroomPath(cfg, name) IN
       IF op.pretend
       THEN pc' = "dropConfig" /\ UNCHANGED <<world, err, log>>
       ELSE \E deleted \in BOOLEAN :
            /\ log' = Append(log, Call("vcs.Delete", vcsName(name), wrPath))
            /\ IF deleted /\ ~VCSDeleteRefused(World, vcs, op.dir, vcsName(name), wrPath)
               THEN LET w == VCSDelete(World, vcs, op.dir, vcsName(name), wrPath) IN
                    /\ SetWorld(IF vcs = TypeJJ /\ DirExists(w.disk, wrPath)
                                THEN [w EXCEPT !.disk = RemoveAll(@, wrPath)]
                                ELSE w)
                    /\ pc' = "dropConfig"
                    /\ UNCHANGED err
               ELSE Finish(ErrDeleteWorkspace) /\ UNCHANGED world
    /\ UNCHANGED <<op, locals, pre, invocations>>

\* A removal of the config entry that goes on to the next selected name when
\* the write fails.
DeleteConfigBestEffort ==
    /\ pc = "dropConfig"
    /\ \E written \in BOOLEAN :
        /\ cfg' = IF op.pretend \/ ~written THEN cfg
                  ELSE RemoveWorkroom(cfg, op.dir, name)
        /\ log' = IF ~op.pretend /\ ~written THEN log
                  ELSE log \o <<Call("say deleted", name, <<>>)>>
                           \o (IF vcs = TypeGit
                               THEN <<Call("say branch kept", vcsName(name), <<>>)>>
                               ELSE <<>>)
        /\ IF selected = <<>>
           THEN /\ Finish(IF ~op.pretend /\ ~written THEN ErrIO ELSE err)
                /\ UNCHANGED <<name, selected>>
           ELSE /\ pc' = "teardown"
                /\ name' = Head(selected)
                /\ selected' = Tail(selected)
                /\ err' = IF ~op.pretend /\ ~written THEN ErrIO ELSE err
    /\ UNCHANGED <<disk, jjSpaces, gitTrees, gitBranches, op, vcs, attempts,
                   lastName, round, confirmed, pre, invocations>>

\* deleteByName, lines 475-497: the config entry and the report; then
\* InteractiveDelete's loop, lines 433-439, moves to the next selected name.
DeleteConfig ==
    /\ pc = "dropConfig"
    /\ \E written \in BOOLEAN :
        IF ~op.pretend /\ ~written
        THEN Finish(ErrIO) /\ UNCHANGED <<cfg, log, name, selected>>
        ELSE /\ cfg' = IF op.pretend THEN cfg ELSE RemoveWorkroom(cfg, op.dir, name)
             /\ log' = log \o <<Call("say deleted", name, <<>>)>>
                           \o (IF vcs = TypeGit
                               THEN <<Call("say branch kept", vcsName(name), <<>>)>>
                               ELSE <<>>)
             /\ IF selected = <<>>
                THEN Finish("") /\ UNCHANGED <<name, selected>>
                ELSE /\ pc' = "teardown"
                     /\ name' = Head(selected)
                     /\ selected' = Tail(selected)
                     /\ UNCHANGED err
    /\ UNCHANGED <<disk, jjSpaces, gitTrees, gitBranches, op, vcs, attempts,
                   lastName, round, confirmed, pre, invocations>>

----------------------------------------------------------------------------
(* Service.Delete *)

\* The names given to Delete: the generated ones, those the config or the
\* backend of dir holds, and a name outside the pattern.
InvalidNames == { <<"f","o",".","o">> }
KnownNames(w, dir) ==
    (IF dir \in DOMAIN w.cfg.projects
     THEN DOMAIN w.cfg.projects[dir].workrooms ELSE {})
    \cup (IF dir \in Repos
          THEN {SubSeq(v, Len(WorkroomPrefix) + 1, Len(v)) : v \in w.jjSpaces[dir]}
               \cup {Base(q) : q \in w.gitTrees[dir]}
          ELSE {})
DeleteNames(dir) == Generate \cup KnownNames(World, dir) \cup InvalidNames

\* The values of --confirm: none, the name, another word.
WrongToken == <<"w","r","o","n","g">>
ConfirmValues(n) == {<<>>, n, WrongToken}

\* ConfirmFn: yes, no, or a failed prompt.
ConfirmAnswers == {"yes", "no", "error"}

\* Guards that resolve the backend before they look at the name.
deleteGuardsBackendFirst(w, dir, n, pretend) ==
    IF CheckNotInWorkroom(dir) # "" THEN CheckNotInWorkroom(dir)
    ELSE IF Detect(dir).err # "" THEN Detect(dir).err
    ELSE IF ~validNameRe(n) THEN ErrInvalidName
    ELSE IF pretend THEN ""
    ELSE IF ~WorkroomExists(w, Detect(dir).vcs, dir, n)
    THEN (IF Detect(dir).vcs = TypeJJ THEN ErrJJWorkspaceNotFound
          ELSE ErrGitWorktreeNotFound)
    ELSE ""

\* Guards that report every missing workroom as a missing JJ workspace.
deleteGuardsOneNotFound(w, dir, n, pretend) ==
    IF CheckNotInWorkroom(dir) # "" THEN CheckNotInWorkroom(dir)
    ELSE IF ~validNameRe(n) THEN ErrInvalidName
    ELSE IF Detect(dir).err # "" THEN Detect(dir).err
    ELSE IF pretend THEN ""
    ELSE IF ~WorkroomExists(w, Detect(dir).vcs, dir, n)
    THEN ErrJJWorkspaceNotFound
    ELSE ""

\* Guards that a dry run skips but for the marker and the backend.
deleteGuardsSkippedInDryRun(w, dir, n, pretend) ==
    IF CheckNotInWorkroom(dir) # "" THEN CheckNotInWorkroom(dir)
    ELSE IF ~pretend /\ ~validNameRe(n) THEN ErrInvalidName
    ELSE IF Detect(dir).err # "" THEN Detect(dir).err
    ELSE IF pretend THEN ""
    ELSE IF ~WorkroomExists(w, Detect(dir).vcs, dir, n)
    THEN (IF Detect(dir).vcs = TypeJJ THEN ErrJJWorkspaceNotFound
          ELSE ErrGitWorktreeNotFound)
    ELSE ""

\* Delete, lines 338-360: the guards and the existence check, given that the
\* listing succeeds; the error returned, "" for none.
deleteGuards(w, dir, n, pretend) ==
    IF CheckNotInWorkroom(dir) # "" THEN CheckNotInWorkroom(dir)
    ELSE IF ~validNameRe(n) THEN ErrInvalidName
    ELSE IF Detect(dir).err # "" THEN Detect(dir).err
    ELSE IF pretend THEN ""
    ELSE IF ~WorkroomExists(w, Detect(dir).vcs, dir, n)
    THEN (IF Detect(dir).vcs = TypeJJ THEN ErrJJWorkspaceNotFound
          ELSE ErrGitWorktreeNotFound)
    ELSE ""

\* A confirmation that takes any token for the name.
confirmationByAnyToken(n, confirmValue, answer) ==
    IF confirmValue # <<>> THEN "proceed"
    ELSE IF answer = "error" THEN "error"
    ELSE IF answer = "no" THEN "abort"
    ELSE "proceed"

\* A confirmation that goes on when the prompt is declined.
confirmationIgnoringDecline(n, confirmValue, answer) ==
    IF confirmValue # <<>>
    THEN (IF confirmValue # n THEN "mismatch" ELSE "proceed")
    ELSE IF answer = "error" THEN "error"
    ELSE "proceed"

\* Delete, lines 362-375: what the confirmation decides. answer is what
\* ConfirmFn returns when it is asked.
confirmation(n, confirmValue, answer) ==
    IF confirmValue # <<>>
    THEN (IF confirmValue # n THEN "mismatch" ELSE "proceed")
    ELSE IF answer = "error" THEN "error"
    ELSE IF answer = "no" THEN "abort"
    ELSE "proceed"

\* Delete, lines 338-378, up to the call of deleteByName.
DeleteBegin(dir, n, confirmValue, pretend) ==
    /\ Start("delete", dir, n, confirmValue, pretend)
    /\ \/ \* WorkroomExists fails to list
          /\ ~pretend
          /\ deleteGuards(World, dir, n, TRUE) = ""
          /\ Finish(ErrSubprocess)
          /\ vcs' = Detect(dir).vcs
          /\ UNCHANGED <<name, confirmed, log>>
       \/ IF deleteGuards(World, dir, n, pretend) # ""
          THEN /\ Finish(deleteGuards(World, dir, n, pretend))
               /\ vcs' = IF deleteGuards(World, dir, n, TRUE) = ""
                         THEN Detect(dir).vcs ELSE vcs
               /\ UNCHANGED <<name, confirmed, log>>
          ELSE IF pretend
          THEN /\ pc' = "teardown"
               /\ vcs' = Detect(dir).vcs
               /\ name' = n
               /\ UNCHANGED <<confirmed, err, log>>
          ELSE \E answer \in ConfirmAnswers :
               LET decided == confirmation(n, confirmValue, answer) IN
               /\ vcs' = Detect(dir).vcs
               /\ name' = n
               /\ IF confirmValue = <<>>
                  THEN /\ log' = Append(log, Call("confirm", n, <<>>))
                       /\ confirmed' = answer
                  ELSE UNCHANGED <<confirmed, log>>
               /\ IF decided = "proceed" THEN pc' = "teardown" /\ UNCHANGED err
                  ELSE Finish(CASE decided = "mismatch" -> ErrConfirmMismatch
                                [] decided = "error" -> ErrPrompt
                                [] decided = "abort" -> "")
    /\ UNCHANGED <<world, attempts, lastName, round, selected>>

----------------------------------------------------------------------------
(* Service.InteractiveDelete *)

\* The sequences without repetition over the set S.
RECURSIVE Arrangements(_)
Arrangements(S) ==
    {<<>>} \cup UNION {{<<x>> \o t : t \in Arrangements(S \ {x})} : x \in S}

\* PromptFn: the names picked among the options, in the order shown.
Selections(options) == Arrangements(options)

\* A batch decision that goes on when the confirmation is declined.
batchDecisionIgnoringDecline(picked, answer) ==
    IF picked = <<>> THEN "none"
    ELSE IF answer = "error" THEN "error"
    ELSE "proceed"

\* InteractiveDelete, lines 412-427: what the selection and the answer to the
\* one confirmation decide. answer is what ConfirmFn returns when asked.
batchDecision(picked, answer) ==
    IF picked = <<>> THEN "none"
    ELSE IF answer = "error" THEN "error"
    ELSE IF answer = "no" THEN "abort"
    ELSE "proceed"

\* InteractiveDelete, lines 383-431, up to the loop over the selected names.
InteractiveDeleteBegin(dir, pretend) ==
    /\ Start("interactive", dir, <<>>, <<>>, pretend)
    /\ IF CheckNotInWorkroom(dir) # ""
       THEN Finish(ErrInWorkroom) /\ UNCHANGED <<vcs, name, selected, confirmed, log>>
       ELSE \E found \in FindCurrentProject(cfg, dir) :
            IF ~found[2] \/ DOMAIN cfg.projects[found[1]].workrooms = {}
            THEN /\ Finish("")
                 /\ log' = <<Call("say none found", <<>>, <<>>)>>
                 /\ UNCHANGED <<vcs, name, selected, confirmed>>
            ELSE
              \/ /\ Finish(ErrPrompt)
                 /\ log' = <<Ran("prompt", <<>>, <<>>, 1)>>
                 /\ UNCHANGED <<vcs, name, selected, confirmed>>
              \/ \E picked \in Selections(DOMAIN cfg.projects[found[1]].workrooms) :
                 \E answer \in ConfirmAnswers :
                   LET decided == batchDecision(picked, answer) IN
                   IF decided = "none"
                   THEN /\ Finish("")
                        /\ log' = <<Call("prompt", picked, <<>>)>>
                        /\ UNCHANGED <<vcs, name, selected, confirmed>>
                   ELSE /\ confirmed' = answer
                        /\ log' = <<Call("prompt", picked, <<>>),
                                    Call("confirm", picked, <<>>)>>
                        /\ IF decided = "error"
                           THEN Finish(ErrPrompt) /\ UNCHANGED <<vcs, name, selected>>
                           ELSE IF decided = "abort"
                           THEN Finish("") /\ UNCHANGED <<vcs, name, selected>>
                           ELSE IF Detect(dir).err # ""
                           THEN /\ Finish(Detect(dir).err)
                                /\ UNCHANGED <<vcs, name, selected>>
                           ELSE /\ vcs' = Detect(dir).vcs
                                /\ name' = Head(picked)
                                /\ selected' = Tail(picked)
                                /\ pc' = "teardown"
                                /\ UNCHANGED err
    /\ UNCHANGED <<world, attempts, lastName, round>>

----------------------------------------------------------------------------

\* The process exits; the next invocation starts from a fresh Service.
Return ==
    /\ pc = "done"
    /\ pc' = "idle"
    /\ op' = NoOp
    /\ vcs' = ""
    /\ attempts' = 0
    /\ lastName' = <<>>
    /\ round' = 0
    /\ name' = <<>>
    /\ selected' = <<>>
    /\ confirmed' = ""
    /\ err' = ""
    /\ log' = <<>>
    /\ pre' = NoWorld
    /\ UNCHANGED <<world, invocations>>

Init ==
    /\ cfg = EmptyConfig
    /\ disk = NoDirs
    /\ jjSpaces = [d \in Repos |-> {}]
    /\ gitTrees = [d \in Repos |-> {}]
    /\ gitBranches = [d \in Repos |-> {}]
    /\ pc = "idle"
    /\ op = NoOp
    /\ vcs = ""
    /\ attempts = 0
    /\ lastName = <<>>
    /\ round = 0
    /\ name = <<>>
    /\ selected = <<>>
    /\ confirmed = ""
    /\ err = ""
    /\ log = <<>>
    /\ pre = NoWorld
    /\ invocations = 0

Next ==
    \/ \E dir \in Dirs, pretend \in BOOLEAN : CreateBegin(dir, pretend)
    \/ GenerateAttempt
    \/ FallbackAttempt
    \/ CreateWorkspace
    \/ CreateConfig
    \/ CreateSetup
    \/ \E dir \in Dirs, pretend \in BOOLEAN :
         \E n \in DeleteNames(dir) : \E confirmValue \in ConfirmValues(n) :
            DeleteBegin(dir, n, confirmValue, pretend)
    \/ \E dir \in Dirs, pretend \in BOOLEAN : InteractiveDeleteBegin(dir, pretend)
    \/ DeleteTeardown
    \/ DeleteWorkspace
    \/ DeleteConfig
    \/ Return

Spec == Init /\ [][Next]_vars

----------------------------------------------------------------------------
(* Vocabulary of the properties *)

\* The calls of one kind the running invocation made, in order.
Calls(what) == SelectSeq(log, LAMBDA c : c.call = what)

\* The workroom names the document holds under a project.
Recorded(data, dir) ==
    IF dir \in DOMAIN data.projects
    THEN DOMAIN data.projects[dir].workrooms ELSE {}

\* The invocation of a command has returned.
Returned(cmd) == pc = "done" /\ op.cmd = cmd

----------------------------------------------------------------------------
(* Create *)

\* C1: after a non-dry-run Create(dir) that returns success with the chosen
\* name N, the config holds a project keyed by dir whose vcs is the detected
\* backend type and whose workrooms hold N with path <workroomsDir>/N, and
\* the backend Create was invoked exactly once, with "workroom/" + N and
\* that path.
C1_CreateRecordsWorkroom ==
    (Returned("create") /\ ~op.pretend /\ err = "") =>
        LET path == Join(WorkroomsDir(cfg), name) IN
        /\ op.dir \in DOMAIN cfg.projects
        /\ cfg.projects[op.dir].vcs = Detect(op.dir).vcs
        /\ name \in DOMAIN cfg.projects[op.dir].workrooms
        /\ cfg.projects[op.dir].workrooms[name].path = path
        /\ Calls("vcs.Create") = <<Call("vcs.Create", WorkroomPrefix \o name, path)>>

\* A successful Create that made its project's first workroom.
C1_Witness ==
    /\ Returned("create") /\ ~op.pretend /\ err = ""
    /\ op.dir \notin DOMAIN pre.cfg.projects
    /\ Calls("vcs.Create") # <<>>

\* C2: the name generation calls the generator at most 5 times and returns
\* the first candidate that the backend does not report and whose target
\* path <workroomsDir>/<candidate> is not on disk; a candidate that collides
\* is never handed to the backend Create nor written to the config.
C2_FirstUnusedCandidate ==
    /\ [](attempts <= MaxNameAttempts)
    /\ [](op.cmd = "create" =>
            /\ \A i \in DOMAIN log : log[i].call = "vcs.Create" =>
                   /\ log[i].ref = WorkroomPrefix \o name
                   /\ ~WorkroomExists(pre, Detect(op.dir).vcs, op.dir, name)
                   /\ ~DirExists(pre.disk, Join(WorkroomsDir(pre.cfg), name))
            /\ \A n \in Recorded(cfg, op.dir) \ Recorded(pre.cfg, op.dir) :
                   /\ n = name
                   /\ ~WorkroomExists(pre, Detect(op.dir).vcs, op.dir, n)
                   /\ ~DirExists(pre.disk, Join(WorkroomsDir(pre.cfg), n)))
    /\ [][pc = "generate" =>
            LET free == /\ ~WorkroomExists(World, vcs, op.dir, lastName')
                        /\ ~DirExists(disk, Join(WorkroomsDir(cfg), lastName'))
            IN  /\ attempts' = attempts + 1
                /\ lastName' \in Generate
                /\ pc' = "create" => free /\ name' = lastName'
                /\ pc' \in {"generate", "fallback"} => ~free
                /\ pc' = "done" => err' = ErrSubprocess]_vars

\* Create succeeded with the second candidate: the first one collided.
C2_Witness ==
    /\ Returned("create") /\ ~op.pretend /\ err = ""
    /\ attempts = 2
    /\ name = lastName
    /\ name \in Recorded(cfg, op.dir)

\* The invocations keep running: a step that can be taken is taken.
FairSpec == Spec /\ WF_vars(Next)

\* Every suffixed candidate <lastName>-10 .. <lastName>-99 is taken, in the
\* backend or on disk.
AllSuffixedTaken ==
    \A k \in 0..(SuffixSpan - 1) :
        LET candidate == Suffixed(lastName, k + SuffixMin) IN
        \/ WorkroomExists(World, vcs, op.dir, candidate)
        \/ DirExists(disk, Join(WorkroomsDir(cfg), candidate))

\* C3: when every generated candidate collided and every suffixed candidate
\* is taken too, Create terminates: it returns an error, having created no
\* backend workspace and no config entry.
C3_ExhaustedGenerationFails ==
    (pc = "fallback" /\ AllSuffixedTaken)
        ~> (/\ Returned("create") /\ err # ""
            /\ Calls("vcs.Create") = <<>>
            /\ cfg = pre.cfg)

\* The config write of a Create failed after its backend Create succeeded.
ConfigWriteFailed ==
    /\ Returned("create") /\ ~op.pretend
    /\ err = ErrIO
    /\ Calls("vcs.Create") # <<>>

\* The setup script of a Create exited nonzero.
SetupFailed ==
    \E i \in DOMAIN log : log[i].call = "setup" /\ log[i].exit # 0

\* C8 as stated: Create never rolls back. When the config write fails after a
\* successful backend Create, Create returns an error and the backend
\* workspace remains, with no config entry and setup not run; when the setup
\* script exits nonzero, Create returns the setup-script-failed error and
\* both the backend workspace and the config entry remain.
C8_NoRollback ==
    /\ ConfigWriteFailed =>
          /\ WorkroomExists(World, Detect(op.dir).vcs, op.dir, name)
          /\ name \notin Recorded(cfg, op.dir)
          /\ Calls("setup") = <<>>
    /\ SetupFailed =>
          /\ pc = "done" /\ err = ErrSetup
          /\ WorkroomExists(World, Detect(op.dir).vcs, op.dir, name)
          /\ name \in Recorded(cfg, op.dir)

\* C8: Create never rolls back. When the config write fails after a
\* successful backend Create, Create returns an error and the backend
\* workspace remains, the config document is as it was before the call and
\* setup is not run; when the setup script exits nonzero, Create returns the
\* setup-script-failed error and both the backend workspace and the config
\* entry remain.
C8_NoRollbackNoWrite ==
    /\ ConfigWriteFailed =>
          /\ WorkroomExists(World, Detect(op.dir).vcs, op.dir, name)
          /\ cfg = pre.cfg
          /\ Calls("setup") = <<>>
    /\ SetupFailed =>
          /\ pc = "done" /\ err = ErrSetup
          /\ WorkroomExists(World, Detect(op.dir).vcs, op.dir, name)
          /\ name \in Recorded(cfg, op.dir)

\* The config write failed after the backend Create of a workroom that the
\* config held no entry for.
C8_Witness ==
    /\ ConfigWriteFailed
    /\ name \notin Recorded(pre.cfg, op.dir)
    /\ WorkroomExists(World, Detect(op.dir).vcs, op.dir, name)

----------------------------------------------------------------------------
(* Delete *)

\* A non-dry-run Delete(dir, name, confirm) of a workroom the backend
\* reported: the guards passed and the listing succeeded.
DeleteOfExisting ==
    /\ op.cmd = "delete" /\ ~op.pretend
    /\ CheckNotInWorkroom(op.dir) = ""
    /\ validNameRe(op.name)
    /\ Detect(op.dir).err = ""
    /\ err # ErrSubprocess
    /\ WorkroomExists(pre, Detect(op.dir).vcs, op.dir, op.name)

C5_ConfirmToken ==
    (DeleteOfExisting /\ op.confirm # <<>>) =>
        /\ Calls("confirm") = <<>>
        /\ op.confirm = op.name =>
              \/ pc \in {"teardown", "forget", "dropConfig"}
              \/ pc = "done" /\ (err = ErrTeardown \/ Calls("vcs.Delete") # <<>>)
        /\ op.confirm # op.name =>
              /\ pc = "done"
              /\ err = ErrConfirmMismatch
              /\ World = pre
              /\ Calls("teardown") = <<>>

\* Delete of an existing workroom returned on a token that is not its name.
C5_Witness ==
    /\ DeleteOfExisting
    /\ op.confirm # <<>> /\ op.confirm # op.name
    /\ pc = "done"

\* C6: for a non-dry-run Delete of an existing workroom with no token, the
\* yes/no prompt is issued exactly once; when it is declined, Delete
\* returns without error, with the config, the backend state and the
\* directory unchanged and no teardown script run.
C6_PromptDecline ==
    (DeleteOfExisting /\ op.confirm = <<>>) =>
        /\ Len(Calls("confirm")) = 1
        /\ confirmed = "no" =>
              /\ pc = "done"
              /\ err = ""
              /\ World = pre
              /\ Calls("teardown") = <<>>
              /\ Calls("vcs.Delete") = <<>>

\* Delete of an existing workroom returned on a declined prompt.
C6_Witness ==
    /\ DeleteOfExisting
    /\ op.confirm = <<>>
    /\ confirmed = "no"
    /\ pc = "done"

\* C7: in Delete, named and interactive, the teardown script runs before the
\* backend Delete of its workroom; when it exits nonzero the invocation
\* returns the teardown-script-failed error and the backend workspace, the
\* directory and the config entry of that workroom are as they were.
C7_TeardownFirst ==
    (op.cmd \in {"delete", "interactive"}) =>
        LET v == Detect(op.dir).vcs
            path == Join(WorkroomsDir(cfg), name)
            failed == \E i \in DOMAIN log :
                          log[i].call = "teardown" /\ log[i].exit # 0
        IN
        /\ \A i \in DOMAIN log, j \in DOMAIN log :
              (/\ log[i].call = "teardown"
               /\ log[j].call = "vcs.Delete"
               /\ log[j].ref = WorkroomPrefix \o log[i].ref) => i < j
        /\ (pc = "done" /\ err = ErrTeardown) <=> failed
        /\ failed =>
              /\ log[Len(log)] = Ran("teardown", name, path, 1)
              /\ \A j \in DOMAIN log :
                    log[j].call = "vcs.Delete" => log[j].ref # WorkroomPrefix \o name
              /\ WorkroomExists(World, v, op.dir, name)
                    <=> WorkroomExists(pre, v, op.dir, name)
              /\ DirExists(disk, path) <=> DirExists(pre.disk, path)
              /\ name \in Recorded(cfg, op.dir) <=> name \in Recorded(pre.cfg, op.dir)
              /\ name \in Recorded(cfg, op.dir) =>
                    cfg.projects[op.dir].workrooms[name]
                        = pre.cfg.projects[op.dir].workrooms[name]
              /\ op.cmd = "delete" => World = pre

\* An interactive Delete removed one workroom and returned on the failed
\* teardown of the next.
C7_Witness ==
    /\ Returned("interactive") /\ err = ErrTeardown
    /\ Calls("vcs.Delete") # <<>>
    /\ Calls("teardown") # <<>>

----------------------------------------------------------------------------
(* Dry run *)

\* C9: with dry-run set, Create, Delete and InteractiveDelete change nothing:
\* no backend Create or Delete is invoked, the config document is not
\* written, no directory is created or removed, and no setup or teardown
\* script is executed.
C9_DryRunChangesNothing ==
    op.pretend =>
        /\ World = pre
        /\ \A i \in DOMAIN log :
              log[i].call \notin {"vcs.Create", "vcs.Delete", "setup", "teardown"}

\* A dry-run InteractiveDelete went through the deletion of a workroom.
C9_Witness ==
    /\ Returned("interactive") /\ op.pretend
    /\ Calls("say deleted") # <<>>
    /\ Recorded(cfg, op.dir) # {}

GuardErrors == {ErrInWorkroom, ErrInvalidName, ErrUnsupportedVCS}
ConflictErrors == {ErrJJWorkspaceNotFound, ErrGitWorktreeNotFound,
                   ErrJJWorkspaceExists, ErrGitWorktreeExists, ErrDirExists}

\* The guard or state-conflict outcome an error stands for, "" for none.
Outcome(e) == IF e \in GuardErrors \cup ConflictErrors THEN e ELSE ""

\* The outcome of the non-dry-run call of the running command from the
\* state the invocation started in; for Create, with the name it chose.
RealOutcome ==
    IF op.cmd = "delete" THEN deleteGuards(pre, op.dir, op.name, FALSE)
    ELSE IF createGuards(op.dir) # "" THEN createGuards(op.dir)
    ELSE createConflict(pre, Detect(op.dir).vcs, op.dir, name, FALSE)

\* A dry-run Create or Delete has returned, its listings having succeeded.
DryRunReturned ==
    /\ pc = "done" /\ op.pretend
    /\ op.cmd \in {"create", "delete"}
    /\ err # ErrSubprocess

\* C10 as stated: a dry-run Create or Delete ends with the same guard or
\* state-conflict outcome (InWorkroom, InvalidName, UnsupportedVCS, backend
\* not-found, backend already-exists, directory-already-exists, or none) as
\* the non-dry-run call from the same state.
C10_DryRunSameOutcome ==
    DryRunReturned => Outcome(err) = RealOutcome

\* C10: a dry-run Create or Delete ends with the same guard outcome
\* (InWorkroom, InvalidName, UnsupportedVCS, or none) as the non-dry-run
\* call from the same state; the existence and conflict checks of the real
\* path are skipped, so a dry run ends with none of their outcomes.
C10_DryRunSameGuards ==
    DryRunReturned =>
        Outcome(err) = (IF RealOutcome \in GuardErrors THEN RealOutcome ELSE "")

\* A dry-run Delete of a workroom the backend does not hold returned
\* success.
C10_Witness ==
    /\ DryRunReturned /\ op.cmd = "delete"
    /\ err = ""
    /\ RealOutcome \in {ErrJJWorkspaceNotFound, ErrGitWorktreeNotFound}

----------------------------------------------------------------------------
(* Guards *)

\* The sentinel file is in the directory of the running invocation.
InWorkroom == ".Workroom" \in DirEntries(op.dir)

\* No marker of a VCS is in the directory of the running invocation.
NoVCS == DirEntries(op.dir) \cap {".jj", ".git"} = {}

\* The invocation returned the error e, having changed nothing and called no
\* collaborator.
Rejected(e) ==
    /\ pc = "done" /\ err = e
    /\ World = pre
    /\ log = <<>>

\* C11: the guards run in a fixed order and the first failing one decides
\* the error, with nothing changed and no prompt issued. Create: InWorkroom,
\* then UnsupportedVCS. Delete: InWorkroom, InvalidName, UnsupportedVCS, then
\* (in a real run) the backend existence, then the confirmation.
\* InteractiveDelete: InWorkroom before the config is read or a prompt made.
C11_GuardOrder ==
    /\ (op.cmd \in {"create", "delete", "interactive"} /\ InWorkroom)
          => Rejected(ErrInWorkroom)
    /\ (op.cmd = "create" /\ ~InWorkroom /\ NoVCS)
          => Rejected(ErrUnsupportedVCS)
    /\ (op.cmd = "delete" /\ ~InWorkroom /\ ~validNameRe(op.name))
          => Rejected(ErrInvalidName)
    /\ (op.cmd = "delete" /\ ~InWorkroom /\ validNameRe(op.name) /\ NoVCS)
          => Rejected(ErrUnsupportedVCS)
    /\ (/\ op.cmd = "delete" /\ ~op.pretend
        /\ ~InWorkroom /\ validNameRe(op.name) /\ ~NoVCS
        /\ err # ErrSubprocess
        /\ ~WorkroomExists(pre, Detect(op.dir).vcs, op.dir, op.name))
          => Rejected(IF ".jj" \in DirEntries(op.dir) THEN ErrJJWorkspaceNotFound
                      ELSE ErrGitWorktreeNotFound)
    /\ (op.cmd = "delete" /\ err \in {ErrConfirmMismatch, ErrPrompt})
          => (/\ ~InWorkroom /\ validNameRe(op.name) /\ ~NoVCS
              /\ WorkroomExists(pre, Detect(op.dir).vcs, op.dir, op.name))

\* Delete of an invalid name, in a directory without a VCS, returned
\* InvalidName.
C11_Witness ==
    /\ Returned("delete")
    /\ ~InWorkroom /\ NoVCS
    /\ ~validNameRe(op.name)
    /\ err = ErrInvalidName

\* C12: a non-dry-run Delete of a valid name that the backend does not report
\* returns the not-found error of the backend, whatever the confirmation
\* token; the confirm prompt is never invoked, and the config, the backend
\* and the disk are unchanged.
C12_DeleteNotFound ==
    (/\ op.cmd = "delete" /\ ~op.pretend
     /\ ~InWorkroom /\ validNameRe(op.name) /\ ~NoVCS
     /\ err # ErrSubprocess
     /\ ~WorkroomExists(pre, Detect(op.dir).vcs, op.dir, op.name)) =>
        /\ pc = "done"
        /\ Detect(op.dir).vcs = TypeJJ => err = ErrJJWorkspaceNotFound
        /\ Detect(op.dir).vcs = TypeGit => err = ErrGitWorktreeNotFound
        /\ Calls("confirm") = <<>>
        /\ confirmed = ""
        /\ World = pre

\* Delete of a missing Git worktree returned not-found, a wrong token given.
C12_Witness ==
    /\ Returned("delete") /\ ~op.pretend
    /\ Detect(op.dir).vcs = TypeGit
    /\ op.confirm = WrongToken
    /\ err = ErrGitWorktreeNotFound

\* C13: a Git-backed Delete never deletes the branch workroom/<name>: no
\* Delete or InteractiveDelete changes the set of branches; on success the
\* output holds a reminder that names exactly the branch workroom/<name>.
C13_GitBranchKept ==
    op.cmd \in {"delete", "interactive"} =>
        /\ gitBranches = pre.gitBranches
        /\ (/\ Returned("delete") /\ err = "" /\ confirmed # "no"
            /\ Detect(op.dir).vcs = TypeGit)
              => \E i \in DOMAIN log :
                    /\ log[i].call = "say branch kept"
                    /\ log[i].ref = WorkroomPrefix \o op.name
        /\ \A i \in DOMAIN log :
              log[i].call = "say branch kept" =>
                  /\ i > 1
                  /\ log[i - 1].call = "say deleted"
                  /\ log[i].ref = WorkroomPrefix \o log[i - 1].ref
        /\ \A i \in DOMAIN log :
              (log[i].call = "say deleted" /\ Detect(op.dir).vcs = TypeGit) =>
                  /\ i < Len(log)
                  /\ log[i + 1] = Call("say branch kept", WorkroomPrefix \o log[i].ref, <<>>)

\* A Git worktree was deleted and its branch is still there.
C13_Witness ==
    /\ Returned("delete") /\ ~op.pretend /\ err = "" /\ confirmed # "no"
    /\ Detect(op.dir).vcs = TypeGit
    /\ (WorkroomPrefix \o op.name) \in gitBranches[op.dir]
    /\ Calls("vcs.Delete") # <<>>

----------------------------------------------------------------------------
(* Detect and the name validation, called on their own *)

\* The characters names are made of here: a letter of each case, a digit,
\* the two separators, and two characters outside the pattern.
NameChars == {"a", "Z", "5", "-", "_", ".", "\n"}
Names == UNION {[1..k -> NameChars] : k \in 0..MaxNameLen}

\* The calls: Detect on a directory with something or nothing at .jj and at
\* .git, and the validation of Delete on a name.
PureCalls ==
    {[cmd |-> "Detect", jj |-> j, git |-> g] : j \in EntryKinds, g \in EntryKinds}
    \cup {[cmd |-> "validName", name |-> n] : n \in Names}

PureInit ==
    /\ cfg = EmptyConfig
    /\ disk = NoDirs
    /\ jjSpaces = [d \in Repos |-> {}]
    /\ gitTrees = [d \in Repos |-> {}]
    /\ gitBranches = [d \in Repos |-> {}]
    /\ pc = "call"
    /\ op \in PureCalls
    /\ vcs = ""
    /\ attempts = 0
    /\ lastName = <<>>
    /\ round = 0
    /\ name = <<>>
    /\ selected = <<>>
    /\ confirmed = ""
    /\ err = ""
    /\ log = <<>>
    /\ pre = NoWorld
    /\ invocations = 0

\* vcs.Detect.
ApplyDetect ==
    /\ pc = "call" /\ op.cmd = "Detect"
    /\ vcs' = DetectMarkers(op.jj, op.git).vcs
    /\ err' = DetectMarkers(op.jj, op.git).err
    /\ pc' = "done"
    /\ UNCHANGED <<world, op, attempts, lastName, round, name, selected,
                   confirmed, log, pre, invocations>>

\* Delete, lines 342-344: the name validation.
ApplyValidName ==
    /\ pc = "call" /\ op.cmd = "validName"
    /\ err' = IF validNameRe(op.name) THEN "" ELSE ErrInvalidName
    /\ pc' = "done"
    /\ UNCHANGED <<world, op, vcs, attempts, lastName, round, name, selected,
                   confirmed, log, pre, invocations>>

PureNext == ApplyDetect \/ ApplyValidName

PureSpec == PureInit /\ [][PureNext]_vars

\* C14: Detect returns the JJ backend whenever the JJ marker directory is
\* present, the Git marker being present or not; the Git backend when only
\* the Git marker is present; and fails with UnsupportedVCS, returning no
\* backend, when neither is present.
C14_DetectPrefersJJ ==
    (pc = "done" /\ op.cmd = "Detect") =>
        LET jjPresent == op.jj = "dir"
            gitPresent == op.git \in {"file", "dir"}
        IN  /\ jjPresent => (vcs = TypeJJ /\ err = "")
            /\ (~jjPresent /\ gitPresent) => (vcs = TypeGit /\ err = "")
            /\ (~jjPresent /\ ~gitPresent) => (vcs = "" /\ err = ErrUnsupportedVCS)

\* Detect returned for a directory holding both markers.
C14_Witness ==
    /\ pc = "done" /\ op.cmd = "Detect"
    /\ op.jj = "dir" /\ op.git = "dir"
    /\ vcs = TypeJJ

\* C15: the name validation of Delete accepts every non-empty string made
\* only of letters, digits, '-' and '_' that neither starts nor ends with
\* '-' or '_', and rejects with InvalidName every string that is empty,
\* holds another character, or starts or ends with '-' or '_'.
C15_NamePattern ==
    (pc = "done" /\ op.cmd = "validName") =>
        LET n == op.name
            letters == Lower \cup Upper
            allowed == letters \cup Digit \cup {"-", "_"}
            wellFormed == /\ n # <<>>
                          /\ \A i \in DOMAIN n : n[i] \in allowed
                          /\ Head(n) \notin {"-", "_"}
                          /\ n[Len(n)] \notin {"-", "_"}
        IN  /\ wellFormed => err = ""
            /\ ~wellFormed => err = ErrInvalidName

\* A name of one character was accepted.
C15_Witness ==
    /\ pc = "done" /\ op.cmd = "validName"
    /\ Len(op.name) = 1
    /\ err = ""

----------------------------------------------------------------------------
(* The config store, called on its own *)

\* The arguments of the calls: two project paths, two workroom names, a
\* path under the default root and a path that is also a project path, the
\* two backend types, and a workrooms root.
ConfigProjects == {ProjJJ, ProjGit}
ConfigNames == Generate
ConfigPaths == {Join(expandPath(DefaultWorkroomsDir), FullName), ProjGit}
ConfigRoots == {OtherRoot}
ConfigDirs == ConfigProjects \cup ConfigPaths \cup {ProjNone}

\* What the config file does during a call: it is read and written, or
\* Read fails, or Write fails.
FileOutcomes == {"ok", "read failed", "write failed"}

\* FindCurrentProject's nil project.
NoProject == "nil"

\* The part of a call that every call shares.
Called(call) ==
    /\ op' = call
    /\ pre' = World
    /\ log' = <<>>
    /\ UNCHANGED <<disk, jjSpaces, gitTrees, gitBranches, pc, locals,
                   invocations>>

\* Config.AddWorkroom.
CallAddWorkroom(parentPath, n, path, vcsType, io) ==
    /\ Called([cmd |-> "AddWorkroom", parentPath |-> parentPath, name |-> n,
               path |-> path, vcs |-> vcsType, io |-> io])
    /\ IF io = "ok"
       THEN cfg' = AddWorkroom(cfg, parentPath, n, path, vcsType) /\ err' = ""
       ELSE cfg' = cfg /\ err' = ErrIO

\* Config.RemoveWorkroom: nothing is written when the project is absent.
CallRemoveWorkroom(parentPath, n, io) ==
    /\ Called([cmd |-> "RemoveWorkroom", parentPath |-> parentPath,
               name |-> n, io |-> io])
    /\ IF io = "read failed" THEN cfg' = cfg /\ err' = ErrIO
       ELSE IF ~RemoveWorkroomWrites(cfg, parentPath)
       THEN cfg' = cfg /\ err' = ""
       ELSE IF io = "write failed" THEN cfg' = cfg /\ err' = ErrIO
       ELSE cfg' = RemoveWorkroom(cfg, parentPath, n) /\ err' = ""

\* Config.SetWorkroomsDir.
CallSetWorkroomsDir(path, io) ==
    /\ Called([cmd |-> "SetWorkroomsDir", path |-> path, io |-> io])
    /\ IF io = "ok"
       THEN cfg' = [cfg EXCEPT !.workrooms_dir = path] /\ err' = ""
       ELSE cfg' = cfg /\ err' = ErrIO

\* Config.FindCurrentProject: op holds what it returned. It writes nothing
\* and returns no error: a failed Read is reported as not found.
CallFindCurrentProject(cwd, io) ==
    /\ \E found \in IF io = "read failed" THEN {<<cwd, FALSE>>}
                     ELSE FindCurrentProject(cfg, cwd) :
          Called([cmd |-> "FindCurrentProject", cwd |-> cwd, io |-> io,
                  projectPath |-> found[1],
                  project |-> IF found[2] THEN cfg.projects[found[1]]
                              ELSE NoProject,
                  found |-> found[2]])
    /\ cfg' = cfg
    /\ err' = ""

ConfigNext ==
    \/ \E parentPath \in ConfigProjects, n \in ConfigNames,
          path \in ConfigPaths, vcsType \in {TypeJJ, TypeGit},
          io \in FileOutcomes :
            CallAddWorkroom(parentPath, n, path, vcsType, io)
    \/ \E parentPath \in ConfigProjects, n \in ConfigNames,
          io \in FileOutcomes :
            CallRemoveWorkroom(parentPath, n, io)
    \/ \E path \in ConfigRoots, io \in FileOutcomes :
            CallSetWorkroomsDir(path, io)
    \/ \E cwd \in ConfigDirs, io \in {"ok", "read failed"} :
            CallFindCurrentProject(cwd, io)

ConfigSpec == Init /\ [][ConfigNext]_vars

\* A call of AddWorkroom or RemoveWorkroom has returned.
Added == op.cmd = "AddWorkroom"
Removed == op.cmd = "RemoveWorkroom"

\* The config file could be read and written during the call.
FileWorked == op.io = "ok"

\* C16: starting from an empty config, after any sequence of AddWorkroom and
\* RemoveWorkroom calls no project with an empty workrooms map is stored:
\* removing the last workroom of a project removes the project entry.
C16_NoEmptyProject ==
    /\ \A p \in DOMAIN cfg.projects : DOMAIN cfg.projects[p].workrooms # {}
    /\ (Removed /\ err = "" /\ Recorded(pre.cfg, op.parentPath) = {op.name})
          => op.parentPath \notin DOMAIN cfg.projects

\* The only workroom of a project was removed.
C16_Witness ==
    /\ Removed
    /\ Recorded(pre.cfg, op.parentPath) = {op.name}
    /\ op.parentPath \notin DOMAIN cfg.projects

\* C17: AddWorkroom(p, n, ..) and RemoveWorkroom(p, n) change only the entry
\* they target: every other workroom of p keeps its path, every other
\* project entry is unchanged, and the workrooms-root override is unchanged.
C17_OnlyTargetedEntry ==
    (Added \/ Removed) =>
        /\ cfg.workrooms_dir = pre.cfg.workrooms_dir
        /\ \A q \in (DOMAIN cfg.projects \cup DOMAIN pre.cfg.projects)
                    \ {op.parentPath} :
              /\ q \in DOMAIN cfg.projects
              /\ q \in DOMAIN pre.cfg.projects
              /\ cfg.projects[q] = pre.cfg.projects[q]
        /\ \A m \in (Recorded(cfg, op.parentPath)
                     \cup Recorded(pre.cfg, op.parentPath)) \ {op.name} :
              /\ m \in Recorded(cfg, op.parentPath)
              /\ m \in Recorded(pre.cfg, op.parentPath)
              /\ cfg.projects[op.parentPath].workrooms[m]
                    = pre.cfg.projects[op.parentPath].workrooms[m]

\* One of the two workrooms of a project was removed, another project and a
\* workrooms root being stored.
C17_Witness ==
    /\ Removed
    /\ Cardinality(Recorded(pre.cfg, op.parentPath)) = 2
    /\ Cardinality(Recorded(cfg, op.parentPath)) = 1
    /\ Cardinality(DOMAIN cfg.projects) = 2
    /\ cfg.workrooms_dir # <<>>

\* C18: AddWorkroom(project, name, path, vcsType) is an upsert: when it
\* returns no error it has created the project entry if absent, set the vcs
\* of the project to vcsType even when the entry held another value, and set
\* workrooms[name].path to path whether or not name was there.
C18_AddIsUpsert ==
    (Added /\ err = "") =>
        /\ op.parentPath \in DOMAIN cfg.projects
        /\ cfg.projects[op.parentPath].vcs = op.vcs
        /\ op.name \in DOMAIN cfg.projects[op.parentPath].workrooms
        /\ cfg.projects[op.parentPath].workrooms[op.name].path = op.path

\* AddWorkroom changed the vcs of a project and the path of a workroom.
C18_Witness ==
    /\ Added
    /\ err = ""
    /\ op.parentPath \in DOMAIN pre.cfg.projects
    /\ pre.cfg.projects[op.parentPath].vcs # op.vcs
    /\ op.name \in Recorded(pre.cfg, op.parentPath)
    /\ pre.cfg.projects[op.parentPath].workrooms[op.name].path # op.path

\* C19: RemoveWorkroom(project, name), where the project entry is absent or
\* holds no workroom called name, returns no error and leaves the config
\* document unchanged (the config file being readable and writable).
C19_RemoveAbsent ==
    (Removed /\ FileWorked /\ op.name \notin Recorded(pre.cfg, op.parentPath)) =>
        /\ err = ""
        /\ cfg = pre.cfg

\* RemoveWorkroom was called on a project that holds another workroom only.
C19_Witness ==
    /\ Removed
    /\ FileWorked
    /\ op.parentPath \in DOMAIN pre.cfg.projects
    /\ op.name \notin Recorded(pre.cfg, op.parentPath)

\* The projects that hold a workroom whose stored path is cwd.
Owners(data, cwd) ==
    {p \in DOMAIN data.projects :
        \E n \in DOMAIN data.projects[p].workrooms :
            data.projects[p].workrooms[n].path = cwd}

\* C20: FindCurrentProject(cwd) returns (cwd, its entry, found) when cwd is a
\* project key, whatever workroom path matches; otherwise, when cwd is the
\* stored path of some workroom, the path of the owning project (not cwd)
\* and its entry; otherwise not-found, echoing cwd with no project (the
\* config file being readable).
C20_FindCurrentProject ==
    (op.cmd = "FindCurrentProject" /\ FileWorked) =>
        /\ op.cwd \in DOMAIN cfg.projects =>
              /\ op.found
              /\ op.projectPath = op.cwd
              /\ op.project = cfg.projects[op.cwd]
        /\ (op.cwd \notin DOMAIN cfg.projects /\ Owners(cfg, op.cwd) # {}) =>
              /\ op.found
              /\ op.projectPath \in Owners(cfg, op.cwd)
              /\ op.projectPath # op.cwd
              /\ op.project = cfg.projects[op.projectPath]
        /\ (op.cwd \notin DOMAIN cfg.projects /\ Owners(cfg, op.cwd) = {}) =>
              /\ ~op.found
              /\ op.projectPath = op.cwd
              /\ op.project = NoProject

\* FindCurrentProject was called on the stored path of a workroom.
C20_Witness ==
    /\ op.cmd = "FindCurrentProject"
    /\ op.cwd \notin DOMAIN cfg.projects
    /\ op.found
    /\ op.projectPath # op.cwd

----------------------------------------------------------------------------
(* Service.List, run as `workroom list` *)

\* newService: the VCS field of the Service the command starts with (nil);
\* List does not call detectVCS.
newServiceVCS == ""

\* Git.ListWorkrooms: the final segment of every listed worktree path.
GitListWorkrooms(w, dir) == {Base(p) : p \in listWorktreePaths(w, dir)}

\* Warnings that leave out the directory check.
workroomWarningsBackendOnly(w, v, n, wrPath, vcsType, dir, listed) ==
    IF v = "" THEN <<>>
    ELSE IF vcsType = TypeJJ
    THEN IF v = TypeJJ /\ listed /\ vcsName(n) \notin JJListWorkrooms(w, dir)
         THEN <<"jj workspace not found">> ELSE <<>>
    ELSE IF vcsType = TypeGit
    THEN IF v = TypeGit /\ listed /\ n \notin GitListWorkrooms(w, dir)
         THEN <<"git workspace not found">> ELSE <<>>
    ELSE <<>>

\* workroomWarnings, for the Service backend v (may be nil) and the stored
\* type vcsType; listed tells whether the listing subprocess succeeded.
workroomWarnings(w, v, n, wrPath, vcsType, dir, listed) ==
    (IF ~DirExists(w.disk, wrPath) THEN <<"directory not found">> ELSE <<>>)
    \o (IF v = "" THEN <<>>
        ELSE IF vcsType = TypeJJ
        THEN IF v = TypeJJ /\ listed /\ vcsName(n) \notin JJListWorkrooms(w, dir)
             THEN <<"jj workspace not found">> ELSE <<>>
        ELSE IF vcsType = TypeGit
        THEN IF v = TypeGit /\ listed /\ n \notin GitListWorkrooms(w, dir)
             THEN <<"git workspace not found">> ELSE <<>>
        ELSE <<>>)

\* A row of the table: name, path and warnings.
Row(n, path, warnings) ==
    [call |-> "row", ref |-> n, path |-> path, exit |-> 0,
     warnings |-> warnings]

\* The orders a range over the map keys S can take.
Orders(S) == {o \in Arrangements(S) : Len(o) = Cardinality(S)}

\* listWorkrooms: the tables it can print, one per order of the map.
listWorkrooms(w, v, workrooms, vcsType, dir, listed) ==
    {[i \in 1..Len(o) |->
        Row(o[i], workrooms[o[i]].path,
            workroomWarnings(w, v, o[i], workrooms[o[i]].path, vcsType, dir,
                             listed))] : o \in Orders(DOMAIN workrooms)}

\* ProjectsWithWorkrooms.
ProjectsWithWorkrooms(data) ==
    {p \in DOMAIN data.projects : DOMAIN data.projects[p].workrooms # {}}

\* The listing of every project in the order o.
RECURSIVE listAll(_, _, _)
listAll(w, o, listed) ==
    IF o = <<>> THEN {<<>>}
    ELSE LET path == Head(o)
             proj == w.cfg.projects[path]
         IN  {<<Call("say project", <<>>, path)>> \o table
                \o <<Call("say", <<>>, <<>>)>> \o rest :
                  table \in listWorkrooms(w, newServiceVCS,
                                          proj.workrooms, proj.vcs, path, listed),
                  rest \in listAll(w, Tail(o), listed)}

\* A List that lists every project when run inside a workroom.
ListWithoutNotice(w, cwd, listed) ==
    UNION {
        IF found[2] /\ found[1] = cwd
        THEN LET project == w.cfg.projects[cwd] IN
             IF DOMAIN project.workrooms = {}
             THEN {<<Call("say none for project", <<>>, <<>>)>>}
             ELSE listWorkrooms(w, newServiceVCS, project.workrooms,
                                project.vcs, cwd, listed)
        ELSE IF ProjectsWithWorkrooms(w.cfg) = {}
        THEN {<<Call("say none", <<>>, <<>>)>>}
        ELSE UNION {listAll(w, o, listed) :
                      o \in Orders(ProjectsWithWorkrooms(w.cfg))}
      : found \in FindCurrentProject(w.cfg, cwd)}

\* Service.List: what it can print, the config file being readable.
List(w, cwd, listed) ==
    UNION {
        IF found[2] /\ found[1] # cwd
        THEN {<<Call("say in workroom", <<>>, <<>>),
                Call("say parent", <<>>, found[1])>>}
        ELSE IF found[2]
        THEN LET project == w.cfg.projects[cwd] IN
             IF DOMAIN project.workrooms = {}
             THEN {<<Call("say none for project", <<>>, <<>>)>>}
             ELSE listWorkrooms(w, newServiceVCS, project.workrooms,
                                project.vcs, cwd, listed)
        ELSE IF ProjectsWithWorkrooms(w.cfg) = {}
        THEN {<<Call("say none", <<>>, <<>>)>>}
        ELSE UNION {listAll(w, o, listed) :
                      o \in Orders(ProjectsWithWorkrooms(w.cfg))}
      : found \in FindCurrentProject(w.cfg, cwd)}

\* The directories `workroom list` is run in: the projects, the workroom
\* directories and a directory that is neither.
ListDirs ==
    ConfigProjects \cup {workroomPath(EmptyConfig, n) : n \in ConfigNames}
    \cup {ProjNone}

\* `workroom list` in cwd. A config file that cannot be read is reported as
\* not found by FindCurrentProject and as an error by ProjectsWithWorkrooms.
CallList(cwd, io, listed) ==
    /\ op' = [cmd |-> "list", dir |-> cwd, io |-> io]
    /\ pre' = NoWorld
    /\ UNCHANGED <<world, pc, locals, invocations>>
    /\ IF io = "read failed"
       THEN log' = <<>> /\ err' = ErrIO
       ELSE (\E out \in List(World, cwd, listed) : log' = out) /\ err' = ""

\* An earlier Create of the name n in the project dir that succeeded: the
\* backend Create and the config entry.
Created(dir, n) ==
    LET v == Detect(dir).vcs
        wrPath == workroomPath(cfg, n)
    IN  /\ ~VCSCreateRefused(World, v, dir, vcsName(n), wrPath)
        /\ SetWorld([VCSCreate(World, v, dir, vcsName(n), wrPath)
                        EXCEPT !.cfg = AddWorkroom(cfg, dir, n, wrPath, v)])
        /\ op' = [cmd |-> "create"]
        /\ pre' = NoWorld
        /\ log' = <<>>
        /\ err' = ""
        /\ UNCHANGED <<pc, locals, invocations>>

\* Outside the tool: a workroom directory is removed, a JJ workspace is
\* forgotten, or a Git worktree is removed.
Outside ==
    /\ \/ \E path \in disk.made :
            /\ disk' = RemoveAll(disk, path)
            /\ UNCHANGED <<jjSpaces, gitTrees>>
       \/ \E dir \in Repos : \E space \in jjSpaces[dir] :
            /\ jjSpaces' = [jjSpaces EXCEPT ![dir] = @ \ {space}]
            /\ UNCHANGED <<disk, gitTrees>>
       \/ \E dir \in Repos : \E path \in gitTrees[dir] :
            /\ gitTrees' = [gitTrees EXCEPT ![dir] = @ \ {path}]
            /\ UNCHANGED <<disk, jjSpaces>>
    /\ op' = [cmd |-> "outside"]
    /\ pre' = NoWorld
    /\ log' = <<>>
    /\ err' = ""
    /\ UNCHANGED <<cfg, gitBranches, pc, locals, invocations>>

ListNext ==
    \/ \E dir \in ConfigProjects, n \in ConfigNames : Created(dir, n)
    \/ Outside
    \/ \E cwd \in ListDirs, io \in {"ok", "read failed"}, listed \in BOOLEAN :
            CallList(cwd, io, listed)

ListSpec == Init /\ [][ListNext]_vars

\* `workroom list` has returned, the config file being readable.
Listed == op.cmd = "list" /\ op.io = "ok"

\* The rows of the printed table.
Rows == SelectSeq(log, LAMBDA c : c.call = "row")

\* The sequence holds the element.
Has(seq, x) == \E i \in DOMAIN seq : seq[i] = x

\* C21: List(cwd) with cwd the stored path of a workroom, and not a project
\* key, prints only the already-in-a-workroom notice with the path of the
\* parent project, prints no listing, and returns no error.
C21_ListInsideWorkroom ==
    (Listed /\ op.dir \notin DOMAIN cfg.projects /\ Owners(cfg, op.dir) # {}) =>
        /\ err = ""
        /\ Len(log) = 2
        /\ log[1] = Call("say in workroom", <<>>, <<>>)
        /\ log[2].call = "say parent"
        /\ log[2].path \in Owners(cfg, op.dir)
        /\ Rows = <<>>

\* List was run in the directory of a recorded workroom.
C21_Witness ==
    /\ Listed
    /\ op.dir \notin DOMAIN cfg.projects
    /\ Owners(cfg, op.dir) # {}
    /\ Len(log) = 2

\* C22: List(cwd) with cwd a known project path prints every workroom of
\* the project, name and path, and annotates a workroom with "directory not
\* found" if and only if its stored path does not exist on disk.
C22_ListProject ==
    (Listed /\ op.dir \in DOMAIN cfg.projects) =>
        /\ err = ""
        /\ Rows = log
        /\ Len(log) = Cardinality(Recorded(cfg, op.dir))
        /\ \A n \in Recorded(cfg, op.dir) :
              \E i \in DOMAIN log :
                /\ log[i].ref = n
                /\ log[i].path = cfg.projects[op.dir].workrooms[n].path
                /\ Has(log[i].warnings, "directory not found")
                      <=> ~DirExists(disk, log[i].path)

\* A project was listed with one workroom whose directory is there and one
\* whose directory is gone.
C22_Witness ==
    /\ Listed
    /\ op.dir \in DOMAIN cfg.projects
    /\ \E i, j \in DOMAIN log :
          /\ Has(log[i].warnings, "directory not found")
          /\ ~Has(log[j].warnings, "directory not found")

\* The live listing of the backend of the project dir reports the workroom n.
Reported(dir, n) ==
    IF cfg.projects[dir].vcs = TypeJJ
    THEN vcsName(n) \in JJListWorkrooms(World, dir)
    ELSE n \in GitListWorkrooms(World, dir)

\* C23: List run from a known project path annotates a workroom with a
\* backend-not-found warning whenever the live listing of the backend of
\* the project reports no workspace named "workroom/<name>" (JJ) or no
\* worktree whose final path segment is <name> (Git).
C23_BackendWarning ==
    (Listed /\ op.dir \in DOMAIN cfg.projects) =>
        \A i \in DOMAIN Rows :
            ~Reported(op.dir, Rows[i].ref) =>
                \/ Has(Rows[i].warnings, "jj workspace not found")
                \/ Has(Rows[i].warnings, "git workspace not found")

----------------------------------------------------------------------------
(* InteractiveDelete *)

\* What PromptFn returned and what the one confirmation named.
Prompts == Calls("prompt")
Confirms == Calls("confirm")

\* The current directory resolves to no project, or to one without workrooms.
NothingToSelect ==
    /\ CheckNotInWorkroom(op.dir) = ""
    /\ \A found \in FindCurrentProject(pre.cfg, op.dir) :
          ~found[2] \/ Recorded(pre.cfg, found[1]) = {}

\* PromptFn returned an empty selection.
NothingSelected ==
    Prompts # <<>> /\ Prompts[1].exit = 0 /\ Prompts[1].ref = <<>>

\* The combined confirmation was declined.
BatchDeclined == Confirms # <<>> /\ confirmed = "no"

\* C24: InteractiveDelete returns without error and leaves config, backend
\* and disk unchanged, running no teardown script and no backend Delete, in
\* each abort case: the current directory resolves to no project or to a
\* project with no workrooms (then no prompt is shown), the selection is empty
\* (then no confirmation is asked), or the one confirmation is declined.
C24_InteractiveAborts ==
    Returned("interactive") =>
        /\ (NothingToSelect \/ NothingSelected \/ BatchDeclined) =>
              /\ err = ""
              /\ World = pre
              /\ Calls("teardown") = <<>>
              /\ Calls("vcs.Delete") = <<>>
        /\ NothingToSelect => (Prompts = <<>> /\ Confirms = <<>>)
        /\ NothingSelected => Confirms = <<>>
        /\ BatchDeclined => Len(Confirms) = 1

\* The confirmation naming two selected workrooms was declined.
C24_Witness ==
    /\ Returned("interactive")
    /\ BatchDeclined
    /\ Len(Confirms[1].ref) = 2
    /\ ~op.pretend

\* The batch was confirmed and the loop over the selection was entered.
BatchStarted ==
    /\ op.cmd = "interactive"
    /\ Confirms # <<>>
    /\ confirmed = "yes"
    /\ vcs # ""

\* The selected names in selection order, and how many of them were reported
\* deleted.
Picked == Confirms[1].ref
Done == Len(Calls("say deleted"))

\* The log holds a step of deleteByName for the name n.
Touched(n) ==
    \E i \in DOMAIN log :
        \/ log[i].call \in {"teardown", "say deleted"} /\ log[i].ref = n
        \/ log[i].call \in {"vcs.Delete", "say branch kept"}
              /\ log[i].ref = vcsName(n)

\* C25: after the confirmation InteractiveDelete deletes the selected names
\* one at a time in selection order and stops at the first hard error: every
\* name before the failing one is fully deleted (backend and config), and for
\* every name after it no teardown script, backend Delete or config removal
\* is performed.
C25_BatchInOrder ==
    BatchStarted =>
        /\ Done <= Len(Picked)
        /\ \A i \in 1..Done : Calls("say deleted")[i].ref = Picked[i]
        /\ pc # "done" => (Done < Len(Picked) /\ name = Picked[Done + 1])
        /\ \A i \in 1..Len(Picked) : i > Done + 1 => ~Touched(Picked[i])
        /\ (pc = "done" /\ err = "") => Done = Len(Picked)
        /\ (pc = "done" /\ err # "") =>
              /\ Done < Len(Picked)
              /\ name = Picked[Done + 1]
              /\ \A i \in 1..Len(Picked) :
                    /\ i <= Done =>
                          /\ Picked[i] \notin Recorded(cfg, op.dir)
                          /\ ~WorkroomExists(World, vcs, op.dir, Picked[i])
                    /\ i > Done + 1 =>
                          /\ Picked[i] \in Recorded(cfg, op.dir)
                          /\ cfg.projects[op.dir].workrooms[Picked[i]]
                                = pre.cfg.projects[op.dir].workrooms[Picked[i]]
                          /\ WorkroomExists(World, vcs, op.dir, Picked[i])
                                <=> WorkroomExists(pre, vcs, op.dir, Picked[i])

\* The deletion of the first of two selected names failed.
C25_Witness ==
    /\ BatchStarted
    /\ pc = "done"
    /\ err # ""
    /\ Len(Picked) = 2
    /\ Done = 0

----------------------------------------------------------------------------
(* The order of Create's steps *)

\* A Create that is not a dry run is running or has returned.
RealCreate == op.cmd = "create" /\ ~op.pretend

\* The backend reports the workspace of the name Create works on.
BackendCreated ==
    /\ Len(Calls("vcs.Create")) = 1
    /\ IF vcs = TypeJJ THEN vcsName(name) \in jjSpaces[op.dir]
       ELSE workroomPath(cfg, name) \in gitTrees[op.dir]

\* The position of the first call of a kind in the log (0 if none).
FirstCall(what) ==
    IF Calls(what) = <<>> THEN 0
    ELSE CHOOSE i \in DOMAIN log :
            log[i].call = what /\ \A j \in 1..(i - 1) : log[j].call # what

\* C29: in a Create that is not a dry run the mutating steps come in the
\* order backend Create, config write, setup script: the config entry is
\* written only after the backend Create succeeded, the setup script runs
\* only after the config entry was written, and if the backend Create fails
\* Create returns an error with the config unchanged and the setup script
\* not run.
C29_CreateOrder ==
    /\ [][(RealCreate /\ cfg' # cfg) =>
            (pc = "addConfig" /\ BackendCreated /\ Calls("setup") = <<>>)]_vars
    /\ [][(RealCreate /\ Len(Calls("setup")') > Len(Calls("setup"))) =>
            /\ pc = "setup"
            /\ BackendCreated
            /\ name \in Recorded(cfg, op.dir)
            /\ cfg.projects[op.dir].workrooms[name].path = workroomPath(cfg, name)]_vars
    /\ [](RealCreate /\ Calls("setup") # <<>> =>
            0 < FirstCall("vcs.Create") /\ FirstCall("vcs.Create") < FirstCall("setup"))
    /\ [](Returned("create") /\ ~op.pretend /\ err = ErrCreateWorkspace =>
            /\ cfg = pre.cfg
            /\ Calls("setup") = <<>>
            /\ Len(Calls("vcs.Create")) = 1)

\* Create ran the setup script after the backend Create and the config
\* write.
C29_Witness ==
    /\ Returned("create") /\ ~op.pretend
    /\ Calls("setup") # <<>>
    /\ BackendCreated
    /\ cfg # pre.cfg

----------------------------------------------------------------------------
(* The fallback of generateUniqueName *)

\* The random suffix is fair: a free suffixed candidate that can be drawn is
\* drawn at some round.
FairChoiceSpec == Spec /\ WF_vars(Next) /\ WF_vars(FallbackAttempt /\ pc' = "create")

\* The suffixed candidates <lastName>-10 .. <lastName>-99.
SuffixedCandidates ==
    {Suffixed(lastName, n) : n \in SuffixMin..(SuffixMin + SuffixSpan - 1)}

\* The fallback loop returned a candidate to Create.
FallbackReturned ==
    /\ pc = "create"
    /\ attempts = MaxNameAttempts
    /\ name \in SuffixedCandidates

\* No invocation ends on a failed listing subprocess.
ListingWorks == [](err # ErrSubprocess)

\* C30: after 5 colliding candidates the fallback of Create proposes only
\* names <fifth candidate>-NN with NN in 10..99, and if at least one of these
\* 90 names is unused in backend and on disk the loop eventually returns an
\* unused one, the random choice being fair (and the listing of the backend
\* working).
C30_FallbackFindsFree ==
    /\ [](pc = "fallback" =>
            attempts = MaxNameAttempts /\ lastName \in Generate)
    /\ [][(pc = "fallback" /\ pc' = "create") =>
            /\ name' \in SuffixedCandidates
            /\ Unused(World, vcs, op.dir, name')]_vars
    /\ ListingWorks =>
          ((pc = "fallback" /\ ~AllSuffixedTaken) ~> FallbackReturned)

\* The fallback returned one of the free suffixed names.
C30_Witness ==
    /\ FallbackReturned
    /\ Unused(World, vcs, op.dir, name)

----------------------------------------------------------------------------
(* The parsers of the backend listings, on the text the commands print *)

\* unicode.IsSpace, for the characters of the listings.
IsSpace(c) == c \in {" ", "\t", "\n", "\r"}

\* strings.Split(s, sep) for a separator of one character.
RECURSIVE Split(_, _)
Split(s, sep) ==
    IF \A i \in DOMAIN s : s[i] # sep THEN <<s>>
    ELSE LET i == CHOOSE k \in DOMAIN s :
                     s[k] = sep /\ \A j \in 1..(k - 1) : s[j] # sep
         IN  <<SubSeq(s, 1, i - 1)>> \o Split(SubSeq(s, i + 1, Len(s)), sep)

\* strings.SplitN(s, sep, 2)[0].
SplitFirst(s, sep) == Split(s, sep)[1]

\* strings.TrimSpace.
RECURSIVE TrimLeft(_)
TrimLeft(s) ==
    IF s # <<>> /\ IsSpace(Head(s)) THEN TrimLeft(Tail(s)) ELSE s
RECURSIVE TrimRight(_)
TrimRight(s) ==
    IF s # <<>> /\ IsSpace(s[Len(s)]) THEN TrimRight(SubSeq(s, 1, Len(s) - 1))
    ELSE s
TrimSpace(s) == TrimRight(TrimLeft(s))

\* strings.Fields: the maximal runs of characters that are not white space.
RECURSIVE Fields(_)
Fields(s) ==
    LET t == TrimLeft(s) IN
    IF t = <<>> THEN <<>>
    ELSE LET k == IF \A i \in DOMAIN t : ~IsSpace(t[i]) THEN Len(t) + 1
                  ELSE CHOOSE i \in DOMAIN t :
                         IsSpace(t[i]) /\ \A j \in 1..(i - 1) : ~IsSpace(t[j])
         IN  <<SubSeq(t, 1, k - 1)>> \o Fields(SubSeq(t, k, Len(t)))

\* filepath.Base of a path written as text.
RECURSIVE StripSlashes(_)
StripSlashes(s) ==
    IF s # <<>> /\ s[Len(s)] = "/" THEN StripSlashes(SubSeq(s, 1, Len(s) - 1))
    ELSE s
filepathBase(path) ==
    IF path = <<>> THEN <<".">>
    ELSE LET t == StripSlashes(path) IN
         IF t = <<>> THEN <<"/">>
         ELSE LET parts == Split(t, "/") IN parts[Len(parts)]

\* The concatenation of the texts of a sequence.
RECURSIVE Concat(_)
Concat(texts) == IF texts = <<>> THEN <<>> ELSE Head(texts) \o Concat(Tail(texts))

\* parseJJWorkspaces over the lines left to read.
RECURSIVE parseJJLines(_)
parseJJLines(lines) ==
    IF lines = <<>> THEN <<>>
    ELSE LET line == TrimSpace(Head(lines))
             n == TrimSpace(SplitFirst(line, ":"))
         IN  IF line = <<>> \/ n = <<>> \/ n = DefaultWorkspace
             THEN parseJJLines(Tail(lines))
             ELSE <<n>> \o parseJJLines(Tail(lines))

\* parseJJWorkspaces, on the text `jj workspace list` prints.
parseJJWorkspacesText(output) == parseJJLines(Split(output, "\n"))

\* JJ.WorkroomExists, given the text of the listing.
JJWorkroomExistsText(output, n) ==
    \E i \in DOMAIN parseJJWorkspacesText(output) :
        parseJJWorkspacesText(output)[i] = vcsName(n)

WorktreeKey == <<"w","o","r","k","t","r","e","e">>
HeadKey == <<"H","E","A","D">>

\* parseGitWorktrees over the lines left to read; directory is the path of
\* the last worktree line read.
RECURSIVE parseGitLines(_, _, _)
parseGitLines(lines, directory, cwd) ==
    IF lines = <<>> THEN <<>>
    ELSE LET fields == Fields(Head(lines)) IN
         IF Len(fields) < 2 THEN parseGitLines(Tail(lines), directory, cwd)
         ELSE IF fields[1] = WorktreeKey
         THEN parseGitLines(Tail(lines), fields[2], cwd)
         ELSE IF fields[1] = HeadKey /\ directory # cwd
         THEN <<directory>> \o parseGitLines(Tail(lines), directory, cwd)
         ELSE parseGitLines(Tail(lines), directory, cwd)

\* parseGitWorktrees, on the text `git worktree list --porcelain` prints.
parseGitWorktreesText(output, cwd) == parseGitLines(Split(output, "\n"), <<>>, cwd)

\* Git.ListWorkrooms and Git.WorkroomExists, given the text of the listing.
GitListWorkroomsText(output, dir) ==
    [i \in DOMAIN parseGitWorktreesText(output, dir) |->
        filepathBase(parseGitWorktreesText(output, dir)[i])]
GitWorkroomExistsText(output, dir, n) ==
    \E i \in DOMAIN GitListWorkroomsText(output, dir) :
        GitListWorkroomsText(output, dir)[i] = n

\* What `jj workspace list` prints for the entries of a listing: a blank
\* line, or "name: description".
JJLine(entry) ==
    IF entry = <<>> THEN <<"\n">> ELSE entry \o <<":"," ","m","k"," ","6","e">> \o <<"\n">>
JJOutput(entries) == Concat([i \in DOMAIN entries |-> JJLine(entries[i])])

\* What `git worktree list --porcelain` prints for the worktrees at paths:
\* a record of three lines and a blank line each.
GitRecord(path) ==
    WorktreeKey \o <<" ">> \o path \o <<"\n">>
    \o HeadKey \o <<" ","c","b">> \o <<"\n">>
    \o <<"b","r","a","n","c","h"," ","r">> \o <<"\n", "\n">>
GitOutput(paths) == Concat([i \in DOMAIN paths |-> GitRecord(paths[i])])

\* The longest listing handed to the parsers, in entries after the first.
MaxListed == 2

\* The workspaces `jj workspace list` can name here, and a blank line.
JJEntries ==
    {<<>>, DefaultWorkspace, vcsName(<<"a">>), vcsName(<<"b">>), <<"a">>}

\* The directories the Git listing is asked from and the paths of the linked
\* worktrees, without and with spaces.
GitDirs == {<<"/","p">>, <<"/","p"," ","q">>}
GitLinked == {<<"/","w","/","a">>, <<"/","w"," ","d","/","a">>, <<"/","w","/","f"," ","o">>}

\* The names asked for.
JJAsked == {<<"a">>, <<"b">>}
GitAsked == {<<"a">>, <<"f"," ","o">>, <<"p">>, <<"w">>}

\* The sequences of at most n elements of S.
SeqsUpTo(S, n) == UNION {[1..k -> S] : k \in 0..n}

\* The calls: the two WorkroomExists and Git's ListWorkrooms, on a listing
\* that the executor prints (ok) or fails to produce. The Git listing starts
\* with the main worktree, the directory asked from.
ParseCalls ==
    {[cmd |-> "JJ.WorkroomExists", entries |-> e, name |-> n, ok |-> ok] :
        e \in SeqsUpTo(JJEntries, MaxListed), n \in JJAsked, ok \in BOOLEAN}
    \cup {[cmd |-> "Git.WorkroomExists", dir |-> d, paths |-> <<d>> \o l,
           name |-> n, ok |-> ok] :
        d \in GitDirs, l \in SeqsUpTo(GitLinked, MaxListed), n \in GitAsked,
        ok \in BOOLEAN}
    \cup {[cmd |-> "Git.ListWorkrooms", dir |-> d, paths |-> <<d>> \o l,
           ok |-> ok] :
        d \in GitDirs, l \in SeqsUpTo(GitLinked, MaxListed), ok \in BOOLEAN}

ParseInit ==
    /\ cfg = EmptyConfig
    /\ disk = NoDirs
    /\ jjSpaces = [d \in Repos |-> {}]
    /\ gitTrees = [d \in Repos |-> {}]
    /\ gitBranches = [d \in Repos |-> {}]
    /\ pc = "call"
    /\ op \in ParseCalls
    /\ vcs = ""
    /\ attempts = 0
    /\ lastName = <<>>
    /\ round = 0
    /\ name = <<>>
    /\ selected = <<>>
    /\ confirmed = ""
    /\ err = ""
    /\ log = <<>>
    /\ pre = NoWorld
    /\ invocations = 0

\* The call returns value, or fails with the error of the executor.
Answer(value) ==
    /\ pc' = "done"
    /\ IF op.ok THEN log' = <<[call |-> "return", value |-> value]>> /\ err' = ""
       ELSE log' = <<>> /\ err' = ErrSubprocess
    /\ UNCHANGED <<world, op, locals, pre, invocations>>

\* JJ.WorkroomExists.
ApplyJJWorkroomExists ==
    /\ pc = "call" /\ op.cmd = "JJ.WorkroomExists"
    /\ Answer(JJWorkroomExistsText(JJOutput(op.entries), op.name))

\* Git.WorkroomExists.
ApplyGitWorkroomExists ==
    /\ pc = "call" /\ op.cmd = "Git.WorkroomExists"
    /\ Answer(GitWorkroomExistsText(GitOutput(op.paths), op.dir, op.name))

\* Git.ListWorkrooms.
ApplyGitListWorkrooms ==
    /\ pc = "call" /\ op.cmd = "Git.ListWorkrooms"
    /\ Answer(GitListWorkroomsText(GitOutput(op.paths), op.dir))

ParseNext ==
    ApplyJJWorkroomExists \/ ApplyGitWorkroomExists \/ ApplyGitListWorkrooms

ParseSpec == ParseInit /\ [][ParseNext]_vars

\* The call has returned; what it returned.
Answered(cmd) == pc = "done" /\ op.cmd = cmd
Value == log[1].value

\* The listed worktrees other than the one at dir, in the order listed.
Others(paths, dir) == SelectSeq(paths, LAMBDA p : p # dir)

\* C26: Exists(dir, name) follows the listing of the backend: for JJ it is
\* true iff the listing, blank lines and "default" discarded, holds a
\* workspace named exactly "workroom/"+name; for Git it is true iff some
\* listed worktree whose path differs from dir has name as final path
\* segment. A failed listing subprocess is returned as an error.
C26_ExistsFollowsListing ==
    /\ Answered("JJ.WorkroomExists") =>
          IF op.ok
          THEN err = "" /\ (Value <=> Has(op.entries, vcsName(op.name)))
          ELSE err = ErrSubprocess
    /\ Answered("Git.WorkroomExists") =>
          IF op.ok
          THEN /\ err = ""
               /\ Value <=> \E i \in DOMAIN Others(op.paths, op.dir) :
                               filepathBase(Others(op.paths, op.dir)[i]) = op.name
          ELSE err = ErrSubprocess

\* C27: Git List handles worktree paths that contain spaces: of every
\* porcelain record the whole path after "worktree " is taken, so the record
\* of the directory asked from is left out even when its path contains
\* spaces, and every other worktree is reported once, by the final segment of
\* its full path.
C27_PathsWithSpaces ==
    (Answered("Git.ListWorkrooms") /\ op.ok) =>
        Value = [i \in DOMAIN Others(op.paths, op.dir) |->
                    filepathBase(Others(op.paths, op.dir)[i])]

----------------------------------------------------------------------------
(* Two invocations of the tool on one config file *)

\* The rounds of two concurrent invocations in one run.
MaxRounds == 2

\* The two processes.
Procs == {1, 2}

\* The read-modify-write calls a process makes.
RaceCalls ==
    {[cmd |-> "AddWorkroom", parentPath |-> d, name |-> n,
      path |-> workroomPath(EmptyConfig, n), vcs |-> Detect(d).vcs] :
        d \in {ProjJJ}, n \in ConfigNames}
    \cup {[cmd |-> "AddWorkroom", parentPath |-> ProjGit, name |-> FullName,
           path |-> workroomPath(EmptyConfig, FullName), vcs |-> TypeGit]}
    \cup {[cmd |-> "SetWorkroomsDir", path |-> r] : r \in ConfigRoots}

\* The document a call hands to Write, having read data.
Modified(call, data) ==
    IF call.cmd = "AddWorkroom"
    THEN AddWorkroom(data, call.parentPath, call.name, call.path, call.vcs)
    ELSE [data EXCEPT !.workrooms_dir = call.path]

Idle == [step |-> "idle"]

RaceInit ==
    /\ cfg = EmptyConfig
    /\ disk = NoDirs
    /\ jjSpaces = [d \in Repos |-> {}]
    /\ gitTrees = [d \in Repos |-> {}]
    /\ gitBranches = [d \in Repos |-> {}]
    /\ pc = "idle"
    /\ op = [p \in Procs |-> Idle]
    /\ vcs = ""
    /\ attempts = 0
    /\ lastName = <<>>
    /\ round = 0
    /\ name = <<>>
    /\ selected = <<>>
    /\ confirmed = ""
    /\ err = ""
    /\ log = <<>>
    /\ pre = NoWorld
    /\ invocations = 0

\* The steps of the processes leave everything but the file, the processes
\* and the record of the round alone.
RaceFrame ==
    UNCHANGED <<disk, jjSpaces, gitTrees, gitBranches, pc, locals, err>>

\* A process starts a call; a round starts with the first of the two.
RaceCall(p, call) ==
    /\ op[p].step = "idle"
    /\ IF \A q \in Procs : op[q].step = "idle"
       THEN /\ invocations < MaxRounds
            /\ invocations' = invocations + 1
            /\ pre' = World
       ELSE UNCHANGED <<invocations, pre>>
    /\ op' = [op EXCEPT ![p] = [step |-> "called", call |-> call]]
    /\ UNCHANGED <<cfg, log>>
    /\ RaceFrame

\* Config.Read in the process p.
RaceRead(p) ==
    /\ op[p].step = "called"
    /\ op' = [op EXCEPT ![p] = [step |-> "read", call |-> @.call, data |-> cfg]]
    /\ log' = Append(log, [proc |-> p, did |-> "read"])
    /\ UNCHANGED <<cfg, pre, invocations>>
    /\ RaceFrame

\* A Write that reads the file again under a lock and modifies what it finds.
RaceWriteLocked(p) ==
    /\ op[p].step = "read"
    /\ cfg' = Modified(op[p].call, cfg)
    /\ op' = [op EXCEPT ![p] = [step |-> "done", call |-> @.call, data |-> @.data]]
    /\ log' = Append(log, [proc |-> p, did |-> "write"])
    /\ UNCHANGED <<pre, invocations>>
    /\ RaceFrame

\* Config.Write in the process p, of the document it read and modified.
RaceWrite(p) ==
    /\ op[p].step = "read"
    /\ cfg' = Modified(op[p].call, op[p].data)
    /\ op' = [op EXCEPT ![p] = [step |-> "done", call |-> @.call, data |-> @.data]]
    /\ log' = Append(log, [proc |-> p, did |-> "write"])
    /\ UNCHANGED <<pre, invocations>>
    /\ RaceFrame

\* Both processes have exited; the round is over.
RaceReturn ==
    /\ \A p \in Procs : op[p].step = "done"
    /\ op' = [p \in Procs |-> Idle]
    /\ log' = <<>>
    /\ pre' = NoWorld
    /\ UNCHANGED <<cfg, invocations>>
    /\ RaceFrame

RaceNext ==
    \/ \E p \in Procs, call \in RaceCalls : RaceCall(p, call)
    \/ \E p \in Procs : RaceRead(p)
    \/ \E p \in Procs : RaceWrite(p)
    \/ RaceReturn

RaceSpec == RaceInit /\ [][RaceNext]_vars

\* Both processes have written: the first and the last writer, and whether
\* the last writer read before the first one wrote.
BothWrote == \A p \in Procs : op[p].step = "done"
Position(p, did) ==
    CHOOSE i \in DOMAIN log : log[i] = [proc |-> p, did |-> did]
LastWriter == log[Len(log)].proc
FirstWriter == CHOOSE p \in Procs : p # LastWriter
Overlapped == Position(LastWriter, "read") < Position(FirstWriter, "write")

\* C28: the config store has no locking across processes: when two
\* invocations each read, modify and write the document, the document after
\* both is what the last writer made of the document it read; when it read
\* before the other one wrote, only its update is there and the other update
\* is lost.
C28_LastWriterWins ==
    BothWrote =>
        /\ cfg = Modified(op[LastWriter].call, op[LastWriter].data)
        /\ Overlapped =>
              cfg = Modified(op[LastWriter].call, pre.cfg)
        /\ ~Overlapped =>
              cfg = Modified(op[LastWriter].call,
                             Modified(op[FirstWriter].call, pre.cfg))

\* Two AddWorkroom calls for different names of one project overlapped, and
\* the workroom of the first writer is not in the document.
C28_Witness ==
    /\ BothWrote
    /\ Overlapped
    /\ op[FirstWriter].call.cmd = "AddWorkroom"
    /\ op[LastWriter].call.cmd = "AddWorkroom"
    /\ op[FirstWriter].call.parentPath = op[LastWriter].call.parentPath
    /\ op[FirstWriter].call.name # op[LastWriter].call.name
    /\ op[FirstWriter].call.name
          \notin Recorded(cfg, op[FirstWriter].call.parentPath)
    /\ op[LastWriter].call.name
          \in Recorded(cfg, op[LastWriter].call.parentPath)

----------------------------------------------------------------------------
(* A failing backend Delete *)

\* The running invocation is a Delete or an InteractiveDelete, not a dry run.
RealDelete == op.cmd \in {"delete", "interactive"} /\ ~op.pretend

\* The backend of the invocation's directory holds the workroom n.
BackendHolds(n) ==
    \/ vcsName(n) \in jjSpaces[op.dir]
    \/ workroomPath(cfg, n) \in gitTrees[op.dir]

\* C31: when the backend Delete fails during a non-dry-run Delete or
\* InteractiveDelete, the operation returns an error and the workroom is not
\* destroyed: the failing step changes neither the config nor the disk, so
\* the config entry is still present and the directory is still there; and
\* the config entry of a workroom is removed only after the backend Delete
\* was called for it and the backend no longer holds it.
C31_BackendDeleteFails ==
    /\ [][(RealDelete /\ pc = "forget" /\ pc' = "done") =>
            /\ err' = ErrDeleteWorkspace
            /\ cfg' = cfg
            /\ disk' = disk]_vars
    /\ []((RealDelete /\ pc = "done" /\ err = ErrDeleteWorkspace) =>
            /\ name \in Recorded(pre.cfg, op.dir) =>
                 /\ name \in Recorded(cfg, op.dir)
                 /\ cfg.projects[op.dir].workrooms[name]
                      = pre.cfg.projects[op.dir].workrooms[name]
            /\ DirExists(pre.disk, workroomPath(cfg, name)) =>
                 DirExists(disk, workroomPath(cfg, name)))
    /\ [][(RealDelete /\ cfg' # cfg) =>
            /\ log # <<>>
            /\ log[Len(log)] =
                 Call("vcs.Delete", vcsName(name), workroomPath(cfg, name))
            /\ ~BackendHolds(name)]_vars

\* A Delete in a JJ project whose backend Delete failed: the entry and the
\* directory are still there.
C31_Witness ==
    /\ Returned("delete")
    /\ ~op.pretend
    /\ err = ErrDeleteWorkspace
    /\ vcs = TypeJJ
    /\ name \in Recorded(cfg, op.dir)
    /\ DirExists(disk, workroomPath(cfg, name))

----------------------------------------------------------------------------
(* Names at the mutating steps *)

\* The steps of Create, Delete and InteractiveDelete that run a script, call
\* the backend, remove a directory or write the config.
MutatingSteps == {"create", "addConfig", "setup", "teardown", "forget",
                  "dropConfig"}

\* The workroom name a logged call of a script or of the backend is about.
NameOf(c) ==
    IF c.call \in {"vcs.Create", "vcs.Delete"}
    THEN SubSeq(c.ref, Len(WorkroomPrefix) + 1, Len(c.ref))
    ELSE c.ref

\* C32: every workroom name that reaches a mutating step (teardown or setup
\* script, backend Create or Delete, directory removal, config add or
\* remove) in Create, Delete or InteractiveDelete matches the naming pattern,
\* the names the multi-select prompt returned and the names of the suffix
\* fallback included; so does every name the config holds.
C32_NamesMatchPattern ==
    /\ pc \in MutatingSteps =>
         /\ validNameRe(name)
         /\ \A i \in 1..Len(selected) : validNameRe(selected[i])
    /\ \A i \in 1..Len(log) :
         log[i].call \in {"setup", "teardown", "vcs.Create", "vcs.Delete"} =>
            validNameRe(NameOf(log[i]))
    /\ \A dir \in DOMAIN cfg.projects :
         \A n \in DOMAIN cfg.projects[dir].workrooms : validNameRe(n)

\* An InteractiveDelete at the backend Delete of the first of two names the
\* prompt returned.
C32_Witness ==
    /\ op.cmd = "interactive"
    /\ ~op.pretend
    /\ pc = "forget"
    /\ selected # <<>>
    /\ validNameRe(name)

----------------------------------------------------------------------------
(* Stored paths *)

\* The workrooms of the config: <<project, name>>.
Entries(data) ==
    UNION {{<<d, n>> : n \in DOMAIN data.projects[d].workrooms} :
              d \in DOMAIN data.projects}

StoredPath(data, e) == data.projects[e[1]].workrooms[e[2]].path

\* The backend of the project still holds the workroom of the entry.
Live(e) ==
    IF cfg.projects[e[1]].vcs = TypeJJ
    THEN vcsName(e[2]) \in jjSpaces[e[1]]
    ELSE StoredPath(cfg, e) \in gitTrees[e[1]]

\* Two workrooms of the config with one stored path.
SharedPath(e1, e2) ==
    /\ e1 # e2
    /\ StoredPath(cfg, e1) = StoredPath(cfg, e2)

\* C33 as stated: after any sequence of Create, Delete and InteractiveDelete
\* operations, no two workrooms in the config, of one project or of two,
\* have the same stored path.
C33_UniquePaths ==
    \A e1 \in Entries(cfg), e2 \in Entries(cfg) : ~SharedPath(e1, e2)

\* C33 as amended: no two workrooms in the config that their backends still
\* hold have the same stored path; two entries share a path only when one of
\* them is an entry without a workroom behind it.
C33_UniqueLivePaths ==
    \A e1 \in Entries(cfg), e2 \in Entries(cfg) :
        SharedPath(e1, e2) => ~(Live(e1) /\ Live(e2))

\* Two projects hold a workroom at one path: the entry of the first was left
\* behind, the second is held by its backend.
C33_Witness ==
    \E e1 \in Entries(cfg), e2 \in Entries(cfg) :
        /\ SharedPath(e1, e2)
        /\ e1[1] # e2[1]
        /\ ~Live(e1)
        /\ Live(e2)

----------------------------------------------------------------------------
(* InteractiveDelete and the checks of Delete *)

\* C34: for each selected name InteractiveDelete runs the routine of the
\* named Delete without the confirmation only: the name is validated against
\* the naming pattern and the backend is asked for it before the teardown
\* script or the backend Delete runs. So a non-dry-run InteractiveDelete is at
\* the backend Delete of a name, or has run a teardown script for it, only if
\* the name matches the pattern and the backend reports it.
C34_InteractiveChecksEachName ==
    (op.cmd = "interactive" /\ ~op.pretend
       /\ (pc = "forget" \/ (pc = "done" /\ err = ErrTeardown))) =>
        /\ validNameRe(name)
        /\ WorkroomExists(World, vcs, op.dir, name)

----------------------------------------------------------------------------
(* The re-verification in Create *)

\* The errors of Create's re-verification, lines 131-140.
AlreadyExistsErrors == {ErrJJWorkspaceExists, ErrGitWorktreeExists, ErrDirExists}

\* C35: in a sequential execution the re-verification that Create performs
\* after the name generation never fails: the name generateUniqueName returned
\* is still unreported by the backend and its path still free when Create
\* checks again, so Create never returns a backend already-exists error or
\* the directory-already-exists error.
C35_ReverificationPasses ==
    /\ (op.cmd = "create" /\ pc = "create") =>
         createConflict(World, vcs, op.dir, name, FALSE) = ""
    /\ Returned("create") => err \notin AlreadyExistsErrors

\* A non-dry-run Create past its re-verification, with a name chosen after an
\* earlier candidate was found in use.
C35_Witness ==
    /\ op.cmd = "create"
    /\ ~op.pretend
    /\ pc = "addConfig"
    /\ attempts > 1
    /\ Calls("vcs.Create") # <<>>

----------------------------------------------------------------------------
(* Accepted candidates and the backend Create *)

\* C38: every candidate accepted by Create's uniqueness check is free in the
\* backend, so the backend Create does not fail on a name conflict: a
\* non-dry-run Create that stands before its backend Create holds a name the
\* backend does not refuse. For Git, after Create then Delete of a name (the
\* branch stays), a later Create that draws the name again rejects it as
\* taken or creates it.
C38_AcceptedCandidateIsFree ==
    (op.cmd = "create" /\ ~op.pretend /\ pc = "create") =>
        ~VCSCreateRefused(World, vcs, op.dir, vcsName(name),
                          workroomPath(cfg, name))

----------------------------------------------------------------------------
(* Workroom directories removed outside the tool *)

\* Between two invocations somebody removes the directory of a workroom
\* (rm -rf): the state List flags as "directory not found".
DirLost ==
    /\ pc = "idle"
    /\ \E path \in disk.made : disk' = RemoveAll(disk, path)
    /\ UNCHANGED <<cfg, jjSpaces, gitTrees, gitBranches, pc, op, locals,
                   err, log, pre, invocations>>

LostNext == Next \/ DirLost

LostSpec == Init /\ [][LostNext]_vars

\* A non-dry-run Delete(dir, name, confirm = name) of a workroom the backend
\* reported when the Delete began, while its directory was missing, has
\* returned.
CleanupReturned ==
    /\ Returned("delete")
    /\ ~op.pretend
    /\ op.confirm = op.name
    /\ deleteGuards(pre, op.dir, op.name, FALSE) = ""
    /\ ~DirExists(pre.disk, workroomPath(pre.cfg, op.name))

\* The errors of a failing subprocess or file operation.
FaultErrors == {ErrSubprocess, ErrIO, ErrDeleteWorkspace}

\* The backend workspace and the config entry of the name are gone.
CleanedUp ==
    /\ err = ""
    /\ ~BackendHolds(op.name)
    /\ op.name \notin Recorded(cfg, op.dir)

\* C39 as stated: a workroom that the backend still reports but whose
\* directory is missing on disk can be cleaned up: Delete(dir, name,
\* confirm = name) succeeds (no subprocess or file operation failing) and
\* removes the backend workspace and the config entry, whether or not the
\* project has a teardown script.
C39_MissingDirCleanup ==
    CleanupReturned => (err \notin FaultErrors => CleanedUp)

\* C39 as amended: such a Delete succeeds and removes the backend workspace
\* and the config entry when the project has no teardown script; when it has
\* one, the script cannot be started in the missing directory, and the
\* Delete returns the teardown error with the backend and the config
\* unchanged.
C39_MissingDirCleanupNoScript ==
    CleanupReturned =>
        /\ Calls("teardown") = <<>> => (err \notin FaultErrors => CleanedUp)
        /\ Calls("teardown") # <<>> =>
             /\ err = ErrTeardown
             /\ World = pre

\* A workroom whose directory was missing has been cleaned up.
C39_Witness ==
    /\ CleanupReturned
    /\ CleanedUp
    /\ Calls("vcs.Delete") # <<>>

----------------------------------------------------------------------------
(* The workrooms root changed between Create and Delete *)

\* Between two invocations the user sets workrooms_dir in the config file.
EditRoot(path) ==
    /\ pc = "idle"
    /\ cfg.workrooms_dir # path
    /\ cfg' = [cfg EXCEPT !.workrooms_dir = path]
    /\ UNCHANGED <<disk, jjSpaces, gitTrees, gitBranches, pc, op, locals,
                   err, log, pre, invocations>>

RootNext == Next \/ \E path \in ConfigRoots : EditRoot(path)

RootSpec == Init /\ [][RootNext]_vars

\* The names the running invocation reported as deleted.
ReportedDeleted ==
    {Calls("say deleted")[i].ref : i \in 1..Len(Calls("say deleted"))}

\* C36: Delete and InteractiveDelete operate on the path recorded in the
\* config for (project, name): the working directory of the teardown script
\* and the target of the backend Delete are the stored path, and for JJ the
\* directory at the stored path is gone once the workroom is reported
\* deleted, also when workrooms_dir was changed between the workroom's
\* Create and its Delete.
C36_DeleteUsesStoredPath ==
    RealDelete =>
        /\ \A i \in 1..Len(log) :
             (/\ log[i].call \in {"teardown", "vcs.Delete"}
              /\ NameOf(log[i]) \in Recorded(pre.cfg, op.dir)) =>
                log[i].path = StoredPath(pre.cfg, <<op.dir, NameOf(log[i])>>)
        /\ \A n \in ReportedDeleted :
             (vcs = TypeJJ /\ n \in Recorded(pre.cfg, op.dir)) =>
                ~DirExists(disk, StoredPath(pre.cfg, <<op.dir, n>>))

----------------------------------------------------------------------------
(* InteractiveDelete started in the directory of a workroom *)

\* No repository: what a directory outside every repository belongs to.
NoRepo == <<>>

\* The repository a directory belongs to: a repository itself, or the one
\* whose backend holds a workroom in that directory.
RepoIn(w, cwd) ==
    IF cwd \in Repos THEN cwd
    ELSE LET holders ==
               {r \in Repos :
                   /\ DirExists(w.disk, cwd)
                   /\ \/ cwd \in w.gitTrees[r]
                      \/ /\ cwd = workroomPath(w.cfg, Base(cwd))
                         /\ vcsName(Base(cwd)) \in w.jjSpaces[r]}
         IN  IF holders = {} THEN NoRepo ELSE CHOOSE r \in holders : TRUE

\* vcs.Detect in cwd: a JJ workspace holds a .jj directory, a Git worktree a
\* .git file.
DetectIn(w, cwd) ==
    IF cwd \in Dirs THEN Detect(cwd)
    ELSE IF RepoIn(w, cwd) = NoRepo THEN DetectMarkers("none", "none")
    ELSE IF cwd \in w.gitTrees[RepoIn(w, cwd)] THEN DetectMarkers("none", "file")
    ELSE DetectMarkers("dir", "none")

\* A result of a handler: the world it leaves, the calls it made, its error.
Result(w, calls, e) == [world |-> w, log |-> calls, err |-> e]

\* deleteByName run in cwd for the name n: the results it can have. The
\* teardown script may be absent; a subprocess or a file operation may fail.
deleteByName(w, v, cwd, n, pretend) ==
    LET wrPath == workroomPath(w.cfg, n)
        repo == RepoIn(w, cwd)
        said == <<Call("say deleted", n, <<>>)>>
                \o (IF v = TypeGit
                    THEN <<Call("say branch kept", vcsName(n), <<>>)>>
                    ELSE <<>>)
        AfterTeardown(calls) ==
            IF pretend THEN {Result(w, calls \o said, "")}
            ELSE LET called == Append(calls, Call("vcs.Delete", vcsName(n), wrPath))
                 IN  {Result(w, called, ErrDeleteWorkspace)}
                     \cup
                     (IF repo = NoRepo
                         \/ VCSDeleteRefused(w, v, repo, vcsName(n), wrPath)
                      THEN {}
                      ELSE LET w1 == VCSDelete(w, v, repo, vcsName(n), wrPath)
                               w2 == IF v = TypeJJ /\ DirExists(w1.disk, wrPath)
                                     THEN [w1 EXCEPT !.disk = RemoveAll(@, wrPath)]
                                     ELSE w1
                           IN  {Result(w2, called, ErrIO),
                                Result([w2 EXCEPT !.cfg = RemoveWorkroom(@, cwd, n)],
                                       called \o said, "")})
    IN  AfterTeardown(<<>>)
        \cup (IF pretend THEN {}
              ELSE UNION {IF exit = 0
                          THEN AfterTeardown(<<Ran("teardown", n, wrPath, 0)>>)
                          ELSE {Result(w, <<Ran("teardown", n, wrPath, exit)>>,
                                       ErrTeardown)} :
                            exit \in ScriptExits(w, wrPath)})

\* InteractiveDelete, lines 433-439: the loop over the selected names.
RECURSIVE deleteSelected(_, _, _, _, _)
deleteSelected(w, v, cwd, names, pretend) ==
    IF names = <<>> THEN {Result(w, <<>>, "")}
    ELSE UNION {IF r.err # "" THEN {r}
                ELSE {Result(s.world, r.log \o s.log, s.err) :
                        s \in deleteSelected(r.world, v, cwd, Tail(names), pretend)} :
                  r \in deleteByName(w, v, cwd, Head(names), pretend)}

\* InteractiveDelete(cwd): the results it can have, each with the project
\* path FindCurrentProject resolved.
InteractiveDelete(w, cwd, pretend) ==
    IF CheckNotInWorkroom(cwd) # ""
    THEN {[projectPath |-> cwd, result |-> Result(w, <<>>, ErrInWorkroom)]}
    ELSE UNION {
        LET names == IF found[2] THEN DOMAIN w.cfg.projects[found[1]].workrooms
                     ELSE {}
            Resolved(r) == [projectPath |-> found[1], result |-> r]
        IN  IF names = {}
            THEN {Resolved(Result(w, <<Call("say none found", <<>>, <<>>)>>, ""))}
            ELSE {Resolved(Result(w, <<Ran("prompt", <<>>, <<>>, 1)>>, ErrPrompt))}
                 \cup UNION {
                    LET decided == batchDecision(picked, answer)
                        prompted == <<Call("prompt", picked, <<>>)>>
                        asked == Append(prompted, Call("confirm", picked, <<>>))
                    IN  IF decided = "none"
                        THEN {Resolved(Result(w, prompted, ""))}
                        ELSE IF decided = "error"
                        THEN {Resolved(Result(w, asked, ErrPrompt))}
                        ELSE IF decided = "abort"
                        THEN {Resolved(Result(w, asked, ""))}
                        ELSE IF DetectIn(w, cwd).err # ""
                        THEN {Resolved(Result(w, asked, DetectIn(w, cwd).err))}
                        ELSE {Resolved(Result(r.world, asked \o r.log, r.err)) :
                                r \in deleteSelected(w, DetectIn(w, cwd).vcs, cwd,
                                                     picked, pretend)} :
                      picked \in Selections(names), answer \in ConfirmAnswers} :
          found \in FindCurrentProject(w.cfg, cwd)}

\* `workroom delete` without a name, run in cwd: a project directory, or the
\* directory of a workroom.
CallInteractiveDelete(cwd, pretend) ==
    /\ cwd \in Dirs \/ DirExists(disk, cwd)
    /\ \E out \in InteractiveDelete(World, cwd, pretend) :
        /\ SetWorld(out.result.world)
        /\ op' = [cmd |-> "interactive", dir |-> cwd, pretend |-> pretend,
                  projectPath |-> out.projectPath]
        /\ log' = out.result.log
        /\ err' = out.result.err
    /\ pre' = NoWorld
    /\ UNCHANGED <<pc, locals, invocations>>

InsideNext ==
    \/ \E dir \in ConfigProjects, n \in ConfigNames : Created(dir, n)
    \/ \E cwd \in ListDirs, pretend \in BOOLEAN : CallInteractiveDelete(cwd, pretend)

InsideSpec == Init /\ [][InsideNext]_vars

\* C37: whenever InteractiveDelete(dir) reports a selected workroom as
\* deleted successfully, the config no longer contains that workroom under
\* the project that FindCurrentProject(dir) resolved, also when dir is a
\* stored workroom path without the marker file, so that the owning
\* project's key differs from dir.
C37_ReportedDeletedIsRemoved ==
    (op.cmd = "interactive" /\ ~op.pretend) =>
        \A n \in ReportedDeleted : n \notin Recorded(cfg, op.projectPath)

----------------------------------------------------------------------------
(* Create followed by Delete of the name it chose *)

\* Delete(dir, n) with the --confirm value confirmValue: the results it can
\* have. The listing subprocess may fail; ConfirmFn is asked when no
\* --confirm value is given.
Delete(w, dir, n, confirmValue, pretend) ==
    (IF ~pretend /\ deleteGuards(w, dir, n, TRUE) = ""
     THEN {Result(w, <<>>, ErrSubprocess)} ELSE {})
    \cup
    (IF deleteGuards(w, dir, n, pretend) # ""
     THEN {Result(w, <<>>, deleteGuards(w, dir, n, pretend))}
     ELSE IF pretend THEN deleteByName(w, Detect(dir).vcs, dir, n, TRUE)
     ELSE UNION {
        LET decided == confirmation(n, confirmValue, answer)
            asked == IF confirmValue = <<>> THEN <<Call("confirm", n, <<>>)>>
                     ELSE <<>>
        IN  IF decided = "mismatch" THEN {Result(w, asked, ErrConfirmMismatch)}
            ELSE IF decided = "error" THEN {Result(w, asked, ErrPrompt)}
            ELSE IF decided = "abort" THEN {Result(w, asked, "")}
            ELSE {Result(r.world, asked \o r.log, r.err) :
                    r \in deleteByName(w, Detect(dir).vcs, dir, n, FALSE)} :
          answer \in ConfirmAnswers})

\* An earlier Create of the name n in the project dir that succeeded when
\* Detect found the backend v there: the markers of a directory can change
\* between invocations, as when JJ is colocated in a Git repository.
CreatedUnder(dir, n, v) ==
    LET wrPath == workroomPath(cfg, n) IN
    /\ pc = "idle"
    /\ invocations = 0
    /\ cfg.projects = EmptyMap
    /\ ~VCSCreateRefused(World, v, dir, vcsName(n), wrPath)
    /\ SetWorld([VCSCreate(World, v, dir, vcsName(n), wrPath)
                    EXCEPT !.cfg = AddWorkroom(cfg, dir, n, wrPath, v)])
    /\ UNCHANGED <<pc, op, locals, err, log, pre, invocations>>

\* After a Create that succeeded: `workroom delete` of the name it chose, in
\* the same directory. pre stays the world before the Create.
DeleteCreated ==
    /\ pc = "done"
    /\ op.cmd = "create"
    /\ ~op.pretend
    /\ err = ""
    /\ \E confirmValue \in ConfirmValues(name) :
       \E out \in Delete(World, op.dir, name, confirmValue, FALSE) :
        /\ SetWorld(out.world)
        /\ op' = [cmd |-> "delete after create", dir |-> op.dir, name |-> name,
                  confirm |-> confirmValue, pretend |-> FALSE]
        /\ log' = out.log
        /\ err' = out.err
    /\ UNCHANGED <<pc, locals, pre, invocations>>

TripNext ==
    \/ Next
    \/ \E dir \in ConfigProjects, n \in {FullName}, v \in {TypeJJ, TypeGit} :
          CreatedUnder(dir, n, v)
    \/ DeleteCreated

TripSpec == Init /\ [][TripNext]_vars

\* A Create and the Delete of the name it chose, given as --confirm value,
\* have both succeeded.
RoundTrip ==
    /\ pc = "done"
    /\ op.cmd = "delete after create"
    /\ op.confirm = op.name
    /\ err = ""
    /\ Calls("say deleted") # <<>>

\* The config document, the listings of the backends and the workroom
\* directories are what they were before the Create.
Restored ==
    /\ cfg = pre.cfg
    /\ \A d \in Repos :
        /\ JJListWorkrooms(World, d) = JJListWorkrooms(pre, d)
        /\ listWorktreePaths(World, d) = listWorktreePaths(pre, d)
    /\ disk = pre.disk

\* Before the Create the config either did not hold the project, or held it
\* with the backend type Create detects, with a workroom, and without the
\* name Create chose.
FreshEntry ==
    op.dir \in DOMAIN pre.cfg.projects =>
        /\ pre.cfg.projects[op.dir].vcs = Detect(op.dir).vcs
        /\ DOMAIN pre.cfg.projects[op.dir].workrooms # {}
        /\ op.name \notin DOMAIN pre.cfg.projects[op.dir].workrooms

====
